---- MODULE Spec2Model ----
(***************************************************************************)
(* Shadow Escape (src/game.js, level data in src/unnamed/part_001).        *)
(*                                                                         *)
(* Numbers.  Coordinates are whole world units.  Times are whole           *)
(* milliseconds.  player.exposureTime and game.score are kept in           *)
(* hundredths (the code's factors 0.05 and 0.01 become 5 and 1),           *)
(* game.difficulty in tenths (1.0 is 10, +0.2 is +2), light angles in      *)
(* micro-radians, light directions in thousandths.  Math.cos / Math.sin    *)
(* are read from a table in steps of 15 degrees, scaled by 1000.  A        *)
(* product that is not a whole number in these units is rounded to the     *)
(* nearest one.                                                            *)
(*                                                                         *)
(* Clock.  The code reads the clock only through the differences           *)
(* timestamp - lastFrameTime (deltaTime, game.js:370) and                  *)
(* Date.now() - levelStartTime (elapsedTime, game.js:450), and through     *)
(* the delay of a pending setTimeout; the model keeps these differences.   *)
(* The clock advances between two animation frames, by deltaTime; the      *)
(* other handlers run at the instant of a frame.                           *)
(*                                                                         *)
(* Spec is the running page: the click, mouse and key handlers, the        *)
(* level timer and the game loop.  VisSpec and LineSpec call the           *)
(* visibility queries directly, on scenes and on segments of a small grid. *)
(*                                                                         *)
(* Not modelled: drawing (the render* and draw methods, castShadowRay),    *)
(* the pulse and direction fields that only drawing reads, and the         *)
(* performance counters.                                                   *)
(***************************************************************************)
EXTENDS Integers, Sequences, FiniteSets, TLC

VARIABLES
    state,                \* game.state
    level,                \* game.level
    score,                \* game.score, in hundredths
    highScore,            \* game.highScore, in hundredths
    storedHighScore,      \* localStorage 'shadowEscapeHighScore', in hundredths
    difficulty,           \* game.difficulty, in tenths
    levelDuration,        \* game.levelDuration
    elapsedTime,          \* Date.now() - game.levelStartTime
    timers,               \* pending setTimeout callbacks: remaining delays
    player,               \* the player object
    obstacles,            \* the obstacles array
    lightSources,         \* the lightSources array
    playerInLight,        \* updateGameplay's playerInLight, last computed
    frame,                \* the last gameLoop pass since the level was started
    games,                \* how many times startGame has run
    query                 \* arguments and result of the last direct query

vars == <<state, level, score, highScore, storedHighScore, difficulty,
          levelDuration, elapsedTime, timers, player, obstacles,
          lightSources, playerInLight, frame, games, query>>

----------------------------------------------------------------------------
(* Arithmetic helpers *)

Abs(a) == IF a < 0 THEN -a ELSE a

Max(a, b) == IF a >= b THEN a ELSE b

\* n / d rounded to the nearest whole number (d > 0), halves away from zero
RoundDiv(n, d) ==
    IF n >= 0 THEN (2 * n + d) \div (2 * d)
    ELSE -((2 * (-n) + d) \div (2 * d))

----------------------------------------------------------------------------
(* Program constants *)

GAME_STATE == [MENU |-> "menu", GAMEPLAY |-> "gameplay",
               LEVEL_TRANSITION |-> "level_transition",
               GAME_OVER |-> "game_over", WIN |-> "win"]

\* canvas.width and canvas.height (index.html, not among the sources)
GameWidth == 800

GameHeight == 600

maxLevel == 5

\* player.radius
PlayerRadius == 15

\* player.maxExposureTime, in hundredths
maxExposureTime == 10000

\* new LightSource(..., 10, ...): the radius every level light is built with
LightRadius == 10

\* LightSource.movementRange
movementRange == 200

\* CircleObstacle.numPoints
numPoints == 12

\* the delay of completeLevel's setTimeout
TransitionDelay == 2000

----------------------------------------------------------------------------
(* Math.cos and Math.sin, times 1000, for angles k * 15 degrees *)

CosTable == <<1000, 966, 866, 707, 500, 259, 0, -259, -500, -707, -866, -966,
              -1000, -966, -866, -707, -500, -259, 0, 259, 500, 707, 866, 966>>

\* k: an angle in steps of 15 degrees
Cos15(k) == CosTable[(k % 24) + 1]

Sin15(k) == CosTable[((k + 18) % 24) + 1]

\* 2 * Math.PI in micro-radians
TwoPiMicro == 6283185

\* the step of 15 degrees nearest to an angle given in micro-radians
AngleStep(a) == RoundDiv(a * 24, TwoPiMicro) % 24

----------------------------------------------------------------------------
(* Obstacles *)

Pt(px, py) == [x |-> px, y |-> py]

Rect(rx, ry, w, h) ==
    [type |-> "rectangle", x |-> rx, y |-> ry, width |-> w, height |-> h,
     radius |-> 0, points |-> <<>>]

Circ(cx, cy, r) ==
    [type |-> "circle", x |-> cx, y |-> cy, width |-> 0, height |-> 0,
     radius |-> r, points |-> <<>>]

Poly(pts) ==
    [type |-> "polygon", x |-> 0, y |-> 0, width |-> 0, height |-> 0,
     radius |-> 0, points |-> pts]

\* RectangleObstacle.getCorners
RectangleCorners(o) ==
    << Pt(o.x, o.y), Pt(o.x + o.width, o.y),
       Pt(o.x + o.width, o.y + o.height), Pt(o.x, o.y + o.height) >>

\* CircleObstacle.getCorners: numPoints points, angleStep = 2 PI / numPoints
CircleCorners(o) ==
    [i \in 1..numPoints |->
        Pt(o.x + RoundDiv(Cos15((i - 1) * (24 \div numPoints)) * o.radius, 1000),
           o.y + RoundDiv(Sin15((i - 1) * (24 \div numPoints)) * o.radius, 1000))]

\* PolygonObstacle.getCorners
PolygonCorners(o) == o.points

\* obstacle.getCorners(), dispatched on the class of the obstacle
getCorners(o) ==
    CASE o.type = "rectangle" -> RectangleCorners(o)
      [] o.type = "circle"    -> CircleCorners(o)
      [] OTHER                -> PolygonCorners(o)

----------------------------------------------------------------------------
(* Visibility queries of LightSource *)

\* ua = numA / denominator and ub = numB / denominator
Denominator(x1, y1, x2, y2, x3, y3, x4, y4) ==
    ((y4 - y3) * (x2 - x1)) - ((x4 - x3) * (y2 - y1))

NumA(x1, y1, x2, y2, x3, y3, x4, y4) ==
    ((x4 - x3) * (y1 - y3)) - ((y4 - y3) * (x1 - x3))

NumB(x1, y1, x2, y2, x3, y3, x4, y4) ==
    ((x2 - x1) * (y1 - y3)) - ((y2 - y1) * (x1 - x3))

\* faulty variant of UnitInterval: the open interval, n / d > 0 && n / d < 1
UnitInterval_open(n, d) ==
    IF d > 0 THEN 0 < n /\ n < d ELSE d < n /\ n < 0

\* n / d >= 0 && n / d <= 1, for d # 0
UnitInterval(n, d) ==
    IF d > 0 THEN 0 <= n /\ n <= d ELSE d <= n /\ n <= 0

\* faulty variant of lineIntersection: end points do not count
lineIntersection_open(x1, y1, x2, y2, x3, y3, x4, y4) ==
    LET denominator == Denominator(x1, y1, x2, y2, x3, y3, x4, y4)
    IN  IF denominator = 0
        THEN FALSE
        ELSE /\ UnitInterval_open(NumA(x1, y1, x2, y2, x3, y3, x4, y4), denominator)
             /\ UnitInterval_open(NumB(x1, y1, x2, y2, x3, y3, x4, y4), denominator)

\* faulty variant of lineIntersection: collinear segments count as intersecting
lineIntersection_collinear(x1, y1, x2, y2, x3, y3, x4, y4) ==
    LET denominator == Denominator(x1, y1, x2, y2, x3, y3, x4, y4)
    IN  IF denominator = 0
        THEN /\ NumA(x1, y1, x2, y2, x3, y3, x4, y4) = 0
             /\ NumB(x1, y1, x2, y2, x3, y3, x4, y4) = 0
        ELSE /\ UnitInterval(NumA(x1, y1, x2, y2, x3, y3, x4, y4), denominator)
             /\ UnitInterval(NumB(x1, y1, x2, y2, x3, y3, x4, y4), denominator)

\* faulty variant of lineIntersection: the far end of the first segment does
\* not count (ua < 1)
lineIntersection_halfOpen(x1, y1, x2, y2, x3, y3, x4, y4) ==
    LET denominator == Denominator(x1, y1, x2, y2, x3, y3, x4, y4)
        ua == NumA(x1, y1, x2, y2, x3, y3, x4, y4)
    IN  IF denominator = 0
        THEN FALSE
        ELSE /\ IF denominator > 0 THEN 0 <= ua /\ ua < denominator
                                   ELSE denominator < ua /\ ua <= 0
             /\ UnitInterval(NumB(x1, y1, x2, y2, x3, y3, x4, y4), denominator)

\* LightSource.lineIntersection
lineIntersection(x1, y1, x2, y2, x3, y3, x4, y4) ==
    LET denominator == Denominator(x1, y1, x2, y2, x3, y3, x4, y4)
    IN  IF denominator = 0
        THEN FALSE
        ELSE /\ UnitInterval(NumA(x1, y1, x2, y2, x3, y3, x4, y4), denominator)
             /\ UnitInterval(NumB(x1, y1, x2, y2, x3, y3, x4, y4), denominator)

\* faulty variant of Edges: no edge from the last corner back to the first
Edges_unclosed(corners) ==
    [i \in 1..(Len(corners) - 1) |-> <<corners[i], corners[i + 1]>>]

\* the edges the loop of isPointInShadow visits: corners[i], corners[(i+1) % n]
Edges(corners) ==
    [i \in 1..Len(corners) |-> <<corners[i], corners[(i % Len(corners)) + 1]>>]

\* faulty variant of isPointInShadow: the loop stops before the closing edge
isPointInShadow_open(l, p, obstacle) ==
    LET edges == Edges(getCorners(obstacle))
    IN  \E i \in 1..(Len(edges) - 1) :
            lineIntersection(l.x, l.y, p.x, p.y,
                             edges[i][1].x, edges[i][1].y,
                             edges[i][2].x, edges[i][2].y)

\* LightSource.isPointInShadow(player, obstacle) of the light l
isPointInShadow(l, p, obstacle) ==
    LET edges == Edges(getCorners(obstacle))
    IN  \E i \in 1..Len(edges) :
            lineIntersection(l.x, l.y, p.x, p.y,
                             edges[i][1].x, edges[i][1].y,
                             edges[i][2].x, edges[i][2].y)

\* faulty variant of WithinLightRadius: dx and dy are compared one by one
WithinLightRadius_box(l, p) ==
    /\ Abs(p.x - l.x) <= l.intensity + p.radius
    /\ Abs(p.y - l.y) <= l.intensity + p.radius

\* distance <= this.intensity + player.radius, distance = sqrt(dx*dx + dy*dy)
WithinLightRadius(l, p) ==
    LET dx == p.x - l.x
        dy == p.y - l.y
        reach == l.intensity + p.radius
    IN  reach >= 0 /\ dx * dx + dy * dy <= reach * reach

\* faulty variant of checkPlayerInLight: the shadow test runs only in the
\* optimized mode
checkPlayerInLight_quality(l, p, obs) ==
    IF WithinLightRadius(l, p)
    THEN l.useOptimizedShadows => ~ \E i \in 1..Len(obs) : isPointInShadow(l, p, obs[i])
    ELSE FALSE

\* faulty variant of checkPlayerInLight: the loop returns after the first obstacle
checkPlayerInLight_first(l, p, obs) ==
    IF WithinLightRadius(l, p)
    THEN Len(obs) > 0 => ~ isPointInShadow(l, p, obs[1])
    ELSE FALSE

\* LightSource.checkPlayerInLight(player) of the light l, over the obstacles obs
checkPlayerInLight(l, p, obs) ==
    IF WithinLightRadius(l, p)
    THEN ~ \E i \in 1..Len(obs) : isPointInShadow(l, p, obs[i])
    ELSE FALSE

----------------------------------------------------------------------------
(* Level data: predefinedLevels *)

\* one entry of a level's lightSources; speed in micro-radians per millisecond
LightData(lx, ly, i, s, pattern) ==
    [x |-> lx, y |-> ly, intensity |-> i, speed |-> s, movementPattern |-> pattern]

PredefinedLevel1 ==
    [obstacles |-> << Rect(300, 200, 100, 50), Rect(500, 400, 80, 80),
                      Rect(200, 450, 120, 40) >>,
     lightSources |-> << LightData(100, 100, 300, 1000, "circle") >>,
     timeToSurvive |-> 20000]

PredefinedLevel2 ==
    [obstacles |-> << Rect(250, 150, 100, 60), Circ(500, 300, 50),
                      Rect(150, 400, 90, 90), Circ(650, 450, 40) >>,
     lightSources |-> << LightData(150, 150, 320, 1200, "linear") >>,
     timeToSurvive |-> 25000]

PredefinedLevel3 ==
    [obstacles |-> << Rect(200, 200, 120, 60), Circ(550, 250, 45),
                      Poly(<< Pt(350, 400), Pt(400, 350), Pt(450, 400), Pt(400, 450) >>),
                      Rect(600, 450, 100, 50),
                      Poly(<< Pt(150, 350), Pt(200, 300), Pt(250, 350), Pt(200, 400),
                              Pt(150, 350) >>) >>,
     lightSources |-> << LightData(100, 100, 330, 1500, "circle"),
                         LightData(700, 500, 300, 1200, "random") >>,
     timeToSurvive |-> 30000]

PredefinedLevel4 ==
    [obstacles |-> << Rect(150, 150, 100, 60), Circ(500, 200, 50),
                      Poly(<< Pt(300, 350), Pt(350, 300), Pt(400, 350), Pt(350, 400) >>),
                      Rect(600, 400, 80, 80), Circ(200, 450, 40),
                      Poly(<< Pt(650, 150), Pt(700, 200), Pt(650, 250), Pt(600, 200) >>) >>,
     lightSources |-> << LightData(100, 100, 350, 1800, "circle"),
                         LightData(700, 500, 320, 1500, "linear") >>,
     timeToSurvive |-> 35000]

PredefinedLevel5 ==
    [obstacles |-> << Rect(100, 100, 120, 60), Circ(450, 150, 45),
                      Poly(<< Pt(250, 300), Pt(300, 250), Pt(350, 300), Pt(300, 350) >>),
                      Rect(550, 350, 100, 50), Circ(200, 400, 50),
                      Poly(<< Pt(600, 150), Pt(650, 100), Pt(700, 150), Pt(650, 200) >>),
                      Rect(400, 450, 80, 80) >>,
     lightSources |-> << LightData(150, 150, 350, 2000, "circle"),
                         LightData(650, 450, 330, 1800, "linear"),
                         LightData(400, 300, 300, 1500, "random") >>,
     timeToSurvive |-> 40000]

predefinedLevels ==
    << PredefinedLevel1, PredefinedLevel2, PredefinedLevel3, PredefinedLevel4,
       PredefinedLevel5 >>

\* predefinedLevels[levelNum] || predefinedLevels[1]
LevelData(levelNum) ==
    IF levelNum \in 1..Len(predefinedLevels)
    THEN predefinedLevels[levelNum]
    ELSE predefinedLevels[1]

----------------------------------------------------------------------------
(* Bounds of the exploration *)

\* what the three Math.random() calls of the LightSource constructor return:
\* the angle (Math.random() * Math.PI * 2, micro-radians) and linearDirection
\* (Math.random() * 2 - 1, thousandths)
ConstructorDraws ==
    { [angle |-> 0, dir |-> [x |-> -1000, y |-> 500]],
      [angle |-> 3141593, dir |-> [x |-> 500, y |-> 500]] }


\* the deltaTime of a frame: by how much the clock advances before it
ShortStep == 50

MediumStep == 2000

\* the steps explored: a short one, a medium one, and a pause as long as the
\* level lasts
ClockSteps(duration) == {ShortStep, MediumStep, duration}

\* the longest time explored since a level started
MaxElapsed == 45000

\* how many games (calls of startGame) are explored
MaxGames == 2

\* how many short steps are explored in a row, and how many medium ones
MaxShortSteps == 2

\* the levels in which short and medium steps are explored
MaxFineLevel == 1

\* the games in which short and medium steps are explored
MaxFineGames == 1

\* positions explored: |x|, |y| <= MaxCoord
MaxCoord == 3400

\* where the mouse is moved to
MouseTargets == { Pt(50, 550), Pt(350, 300) }

----------------------------------------------------------------------------
(* LightSource *)

\* new LightSource(x, y, radius, color, intensity, rotationSpeed), followed by
\* light.movementPattern = pattern; angle and linearDirection are the
\* constructor's Math.random() draws
NewLightSource(lx, ly, r, i, s, pattern, a, dir) ==
    [x |-> lx, y |-> ly, radius |-> r, intensity |-> i,
     angle |-> a, rotationSpeed |-> s,
     useOptimizedShadows |-> TRUE,
     movementPattern |-> pattern,
     centerX |-> lx, centerY |-> ly,
     linearDirection |-> dir,
     nextDirectionChange |-> 0]

\* faulty variant of UpdateCircle: the light becomes a linear one
UpdateCircle_toLinear(l) ==
    LET k == AngleStep(RoundDiv(l.angle, 5))
    IN  [l EXCEPT !.x = l.centerX + RoundDiv(Cos15(k) * movementRange, 1000),
                  !.y = l.centerY + RoundDiv(Sin15(k) * movementRange, 1000),
                  !.movementPattern = "linear"]

\* case 'circle' of LightSource.update; l.angle is already advanced
UpdateCircle(l) ==
    LET k == AngleStep(RoundDiv(l.angle, 5))      \* this.angle * this.movementSpeed
    IN  [l EXCEPT !.x = l.centerX + RoundDiv(Cos15(k) * movementRange, 1000),
                  !.y = l.centerY + RoundDiv(Sin15(k) * movementRange, 1000)]

\* case 'linear' of LightSource.update
UpdateLinear(l, dt) ==
    LET nx == l.x + RoundDiv(l.linearDirection.x * dt, 10000)
        ny == l.y + RoundDiv(l.linearDirection.y * dt, 10000)
        bx == nx < l.radius \/ nx > GameWidth - l.radius
        by == ny < l.radius \/ ny > GameHeight - l.radius
    IN  [l EXCEPT !.x = nx, !.y = ny,
                  !.linearDirection =
                      [x |-> IF bx THEN -l.linearDirection.x ELSE l.linearDirection.x,
                       y |-> IF by THEN -l.linearDirection.y ELSE l.linearDirection.y]]

\* faulty variant of UpdateRandom: the direction is reflected but the
\* position is not clamped
UpdateRandom_reflect(l, dt, draw) ==
    LET expired == l.nextDirectionChange - dt <= 0
        dir == IF expired THEN draw.dir ELSE l.linearDirection
        ndc == IF expired THEN draw.countdown ELSE l.nextDirectionChange - dt
        mx == l.x + RoundDiv(dir.x * dt, 20000)
        my == l.y + RoundDiv(dir.y * dt, 20000)
        cx == mx < l.radius \/ mx > GameWidth - l.radius
        cy == my < l.radius \/ my > GameHeight - l.radius
    IN  [l EXCEPT !.nextDirectionChange = ndc,
                  !.x = mx,
                  !.y = my,
                  !.linearDirection = [x |-> IF cx THEN -dir.x ELSE dir.x,
                                       y |-> IF cy THEN -dir.y ELSE dir.y]]

\* faulty variant of UpdateRandom: a countdown that reaches exactly 0 has
\* not run out yet
UpdateRandom_strict(l, dt, draw) ==
    LET expired == l.nextDirectionChange - dt < 0
        dir == IF expired THEN draw.dir ELSE l.linearDirection
        ndc == IF expired THEN draw.countdown ELSE l.nextDirectionChange - dt
        mx == l.x + RoundDiv(dir.x * dt, 20000)
        my == l.y + RoundDiv(dir.y * dt, 20000)
        cx == mx < l.radius \/ mx > GameWidth - l.radius
        cy == my < l.radius \/ my > GameHeight - l.radius
    IN  [l EXCEPT !.nextDirectionChange = ndc,
                  !.x = IF mx < l.radius THEN l.radius
                        ELSE IF mx > GameWidth - l.radius THEN GameWidth - l.radius
                        ELSE mx,
                  !.y = IF my < l.radius THEN l.radius
                        ELSE IF my > GameHeight - l.radius THEN GameHeight - l.radius
                        ELSE my,
                  !.linearDirection = [x |-> IF cx THEN -dir.x ELSE dir.x,
                                       y |-> IF cy THEN -dir.y ELSE dir.y]]

\* case 'random' of LightSource.update; draw is what Math.random() returns
\* when the countdown has run out
UpdateRandom(l, dt, draw) ==
    LET expired == l.nextDirectionChange - dt <= 0
        dir == IF expired THEN draw.dir ELSE l.linearDirection
        ndc == IF expired THEN draw.countdown ELSE l.nextDirectionChange - dt
        mx == l.x + RoundDiv(dir.x * dt, 20000)
        my == l.y + RoundDiv(dir.y * dt, 20000)
        cx == mx < l.radius \/ mx > GameWidth - l.radius
        cy == my < l.radius \/ my > GameHeight - l.radius
    IN  [l EXCEPT !.nextDirectionChange = ndc,
                  !.x = IF mx < l.radius THEN l.radius
                        ELSE IF mx > GameWidth - l.radius THEN GameWidth - l.radius
                        ELSE mx,
                  !.y = IF my < l.radius THEN l.radius
                        ELSE IF my > GameHeight - l.radius THEN GameHeight - l.radius
                        ELSE my,
                  !.linearDirection = [x |-> IF cx THEN -dir.x ELSE dir.x,
                                       y |-> IF cy THEN -dir.y ELSE dir.y]]

\* LightSource.update(deltaTime)
LightUpdate(l, dt, draw) ==
    LET r == [l EXCEPT !.angle = l.angle + l.rotationSpeed * dt]
    IN  CASE r.movementPattern = "circle" -> UpdateCircle(r)
          [] r.movementPattern = "linear" -> UpdateLinear(r, dt)
          [] r.movementPattern = "random" -> UpdateRandom(r, dt, draw)
          [] OTHER -> r

\* what Math.random() may return to one update of a 'random' light
\* (the direction, Math.random() * 2 - 1 in thousandths, and the countdown,
\* Math.random() * 3000 + 1000)
Draws ==
    { [dir |-> [x |-> -1000, y |-> 500], countdown |-> 1000],
      [dir |-> [x |-> 500, y |-> -1000], countdown |-> 3000] }

NoDraw == [dir |-> [x |-> 0, y |-> 0], countdown |-> 0]

\* the draws one frame consumes: the lights whose countdown runs out in this
\* frame draw d (no predefined level holds two 'random' lights), the others
\* draw nothing
NeedsDraw(l, dt) == l.movementPattern = "random" /\ l.nextDirectionChange - dt <= 0

FrameDraws(ls, dt) ==
    IF \E i \in 1..Len(ls) : NeedsDraw(ls[i], dt)
    THEN { [i \in 1..Len(ls) |-> IF NeedsDraw(ls[i], dt) THEN d ELSE NoDraw] : d \in Draws }
    ELSE { [i \in 1..Len(ls) |-> NoDraw] }

----------------------------------------------------------------------------
(* player *)

InitialPlayer ==
    [x |-> 0, y |-> 0, targetX |-> 0, targetY |-> 0, radius |-> PlayerRadius,
     exposureTime |-> 0, glowIntensity |-> 0]

\* faulty variant of PlayerReset: the exposure is kept
PlayerReset_keepExposure(p) ==
    [p EXCEPT !.x = 50, !.y = GameHeight - 50,
              !.targetX = 50, !.targetY = GameHeight - 50,
              !.glowIntensity = 0]

\* player.reset
PlayerReset(p) ==
    [p EXCEPT !.x = 50, !.y = GameHeight - 50,
              !.targetX = 50, !.targetY = GameHeight - 50,
              !.exposureTime = 0, !.glowIntensity = 0]

\* player.update(deltaTime): speed 0.3, deltaTime / 16; glowIntensity is
\* exposureTime / maxExposureTime, kept in ten-thousandths
PlayerUpdate(p, dt) ==
    LET dx == p.targetX - p.x
        dy == p.targetY - p.y
        moving == dx * dx + dy * dy > 1            \* distance > 1
    IN  [p EXCEPT !.x = IF moving THEN p.x + RoundDiv(dx * 3 * dt, 160) ELSE p.x,
                  !.y = IF moving THEN p.y + RoundDiv(dy * 3 * dt, 160) ELSE p.y,
                  !.glowIntensity = p.exposureTime]

----------------------------------------------------------------------------
(* game *)

NoQuery == [kind |-> "none"]

\* no gameLoop pass yet
NoFrame == [gameplay |-> FALSE, deltaTime |-> 0, lit |-> FALSE,
            calledGameOver |-> FALSE, calledCompleteLevel |-> FALSE]

\* what Math.random() returns to the constructors of one level's lights
LevelDraws(levelNum) ==
    [1..Len(LevelData(levelNum).lightSources) -> ConstructorDraws]

\* faulty variant of LoadObstacles: the array is not cleared first
LoadObstacles_keep(levelNum) == obstacles \o LevelData(levelNum).obstacles

\* loadPredefinedLevel(levelNum): the obstacles it builds
LoadObstacles(levelNum) == LevelData(levelNum).obstacles

\* loadPredefinedLevel(levelNum): the lights it builds
LoadLightSources(levelNum, draws) ==
    LET data == LevelData(levelNum).lightSources
    IN  [i \in 1..Len(data) |->
            NewLightSource(data[i].x, data[i].y, LightRadius, data[i].intensity,
                           data[i].speed, data[i].movementPattern,
                           draws[i].angle, draws[i].dir)]

\* game.startLevel(levelNum)
startLevel(levelNum, draws) ==
    /\ obstacles' = LoadObstacles(levelNum)
    /\ lightSources' = LoadLightSources(levelNum, draws)
    /\ levelDuration' = LevelData(levelNum).timeToSurvive
    /\ player' = PlayerReset(player)
    /\ elapsedTime' = 0                      \* levelStartTime = Date.now()
    /\ state' = GAME_STATE.GAMEPLAY
    /\ frame' = NoFrame

\* faulty variant of StartGame: the difficulty is not reset
StartGame_keepDifficulty ==
    /\ games < MaxGames
    /\ games' = games + 1
    /\ \E draws \in LevelDraws(1) : startLevel(1, draws)
    /\ level' = 1
    /\ score' = 0
    /\ UNCHANGED <<difficulty, highScore, storedHighScore, timers, playerInLight, query>>

\* game.startGame: the click handlers of startGame and closeInstructions
StartGame ==
    /\ games < MaxGames
    /\ games' = games + 1
    /\ \E draws \in LevelDraws(1) : startLevel(1, draws)
    /\ level' = 1
    /\ score' = 0
    /\ difficulty' = 10
    /\ UNCHANGED <<highScore, storedHighScore, timers, playerInLight, query>>

\* faulty variant of TimerFire: the callback returns without starting a level
TimerFire_lost ==
    /\ timers # <<>>
    /\ Head(timers) = 0
    /\ timers' = Tail(timers)
    /\ UNCHANGED <<state, level, score, highScore, storedHighScore, difficulty,
                   levelDuration, elapsedTime, player, obstacles, lightSources,
                   playerInLight, frame, games, query>>

\* the callback of completeLevel's setTimeout: this.startLevel(this.level)
TimerFire ==
    /\ timers # <<>>
    /\ Head(timers) = 0
    /\ timers' = Tail(timers)
    /\ \E draws \in LevelDraws(level) : startLevel(level, draws)
    /\ UNCHANGED <<level, score, highScore, storedHighScore, difficulty,
                   playerInLight, games, query>>

\* the mousemove handler
MouseMove ==
    /\ \E t \in MouseTargets \cup {Pt(player.x, player.y)} :
         player' = IF state = GAME_STATE.GAMEPLAY
                   THEN [player EXCEPT !.targetX = t.x, !.targetY = t.y]
                   ELSE player
    /\ UNCHANGED <<state, level, score, highScore, storedHighScore, difficulty,
                   levelDuration, elapsedTime, timers, obstacles,
                   lightSources, playerInLight, frame, games, query>>

\* faulty variant of ToggleShadowQuality: only the first light is toggled
ToggleShadowQuality_first(ls) ==
    [i \in 1..Len(ls) |->
        IF i = 1
        THEN [ls[i] EXCEPT !.useOptimizedShadows = ~ls[i].useOptimizedShadows]
        ELSE ls[i]]

\* keydown 's': toggle shadow quality
ToggleShadowQuality(ls) ==
    [i \in 1..Len(ls) |->
        [ls[i] EXCEPT !.useOptimizedShadows = ~ls[i].useOptimizedShadows]]

KeyS ==
    /\ lightSources' = ToggleShadowQuality(lightSources)
    /\ UNCHANGED <<state, level, score, highScore, storedHighScore, difficulty,
                   levelDuration, elapsedTime, timers, player, obstacles,
                   playerInLight, frame, games, query>>

\* faulty variant of PlayerInLight: each light overwrites the flag
PlayerInLight_last(ls, p, obs) ==
    Len(ls) > 0 /\ checkPlayerInLight(ls[Len(ls)], p, obs)

\* the playerInLight that updateGameplay computes over the lights ls
PlayerInLight(ls, p, obs) ==
    \E i \in 1..Len(ls) : checkPlayerInLight(ls[i], p, obs)

\* player.exposureTime += deltaTime * 0.05 * this.difficulty
ExposureGain(dt, diff) == RoundDiv(dt * 5 * diff, 10)

\* faulty variant of ExposureDecay: no floor at 0
ExposureDecay_unfloored(e, dt) == e - dt

\* Math.max(0, player.exposureTime - deltaTime * 0.01)
ExposureDecay(e, dt) == Max(0, e - dt)

\* faulty variant of ShadowAward: the level does not count
ShadowAward_flat(dt, lvl) == dt

\* this.score += deltaTime * 0.01 * this.level
ShadowAward(dt, lvl) == dt * lvl

\* const bonusPoints = this.level * 100
BonusPoints(lvl) == lvl * 100 * 100

\* faulty variant of RaiseHighScore: the last score is kept
RaiseHighScore_last(sc, hs) == sc

\* gameOver, winGame: if (this.score > this.highScore) this.highScore = this.score
RaiseHighScore(sc, hs) == IF sc > hs THEN sc ELSE hs

\* faulty variant of IsFinalLevel: one level early
IsFinalLevel_early(lvl) == lvl >= maxLevel - 1

\* completeLevel: this.level >= this.maxLevel
IsFinalLevel(lvl) == lvl >= maxLevel

\* elapsedTime >= this.levelDuration
LevelTimeUp(elapsed) == elapsed >= levelDuration

\* all coordinates within the explored area
InArea(p, ls) ==
    /\ Abs(p.x) <= MaxCoord /\ Abs(p.y) <= MaxCoord
    /\ \A i \in 1..Len(ls) : Abs(ls[i].x) <= MaxCoord /\ Abs(ls[i].y) <= MaxCoord

\* game.updateGameplay after its playerInLight loop: the exposure, the score
\* and the level completion, with gameOver, completeLevel and winGame; p1 and
\* ls1 are the updated player and lights, lit is playerInLight, elapsed is
\* Date.now() - this.levelStartTime
updateExposure(p1, ls1, lit, dt, elapsed) ==
            LET e1 == IF lit THEN p1.exposureTime + ExposureGain(dt, difficulty)
                      ELSE ExposureDecay(p1.exposureTime, dt)
                over == lit /\ e1 >= maxExposureTime
                \* after the exposure branch
                st1 == IF over THEN GAME_STATE.GAME_OVER ELSE state
                sc1 == IF ~lit /\ state = GAME_STATE.GAMEPLAY THEN score + ShadowAward(dt, level)
                       ELSE score
                hs1 == IF over THEN RaiseHighScore(sc1, highScore) ELSE highScore
                \* completeLevel
                done == LevelTimeUp(elapsed)
                sc2 == IF done THEN sc1 + BonusPoints(level) ELSE sc1
                win == done /\ IsFinalLevel(level)
                hs2 == IF win THEN RaiseHighScore(sc2, hs1) ELSE hs1
            IN  /\ player' = [p1 EXCEPT !.exposureTime = e1]
                /\ lightSources' = ls1
                /\ playerInLight' = lit
                /\ score' = sc2
                /\ highScore' = hs2
                /\ storedHighScore' = IF hs2 # highScore THEN hs2 ELSE storedHighScore
                /\ state' = IF win THEN GAME_STATE.WIN
                            ELSE IF done THEN GAME_STATE.LEVEL_TRANSITION
                            ELSE st1
                /\ level' = IF done /\ ~win THEN level + 1 ELSE level
                /\ difficulty' = IF done /\ ~win THEN difficulty + 2 ELSE difficulty
                /\ frame' = [gameplay |-> TRUE, deltaTime |-> dt, lit |-> lit,
                             calledGameOver |-> over, calledCompleteLevel |-> done]

\* faulty variant of updateGameplay: playerInLight starts as true
updateGameplay_lit(dt, elapsed, draws) ==
    \E p1 \in {PlayerUpdate(player, dt)} :
    \E ls1 \in {[i \in 1..Len(lightSources) |-> LightUpdate(lightSources[i], dt, draws[i])]} :
        /\ InArea(p1, ls1)
        /\ updateExposure(p1, ls1, TRUE, dt, elapsed)

\* game.updateGameplay(deltaTime)
updateGameplay(dt, elapsed, draws) ==
    \E p1 \in {PlayerUpdate(player, dt)} :
    \E ls1 \in {[i \in 1..Len(lightSources) |-> LightUpdate(lightSources[i], dt, draws[i])]} :
    /\ InArea(p1, ls1)
    /\ \E lit \in {PlayerInLight(ls1, p1, obstacles)} :
            updateExposure(p1, ls1, lit, dt, elapsed)

\* the clock steps explored from the current state
StepAllowed(d) ==
    /\ elapsedTime + d <= MaxElapsed
    /\ (d < levelDuration /\ state = GAME_STATE.GAMEPLAY)
           => (level <= MaxFineLevel /\ games <= MaxFineGames)
    /\ d = ShortStep => (elapsedTime % MediumStep) < ShortStep * MaxShortSteps
    /\ (d = MediumStep /\ state # GAME_STATE.LEVEL_TRANSITION)
           => (elapsedTime % levelDuration) < MediumStep * MaxShortSteps
    /\ \A i \in 1..Len(timers) : d > 0 => timers[i] > 0

\* faulty variant of Frame: case LEVEL_TRANSITION runs the gameplay update too
Frame_fallThrough ==
    \E dt \in ClockSteps(levelDuration) :
        /\ StepAllowed(dt)
        /\ elapsedTime' = elapsedTime + dt
        /\ LET due == [i \in 1..Len(timers) |-> Max(0, timers[i] - dt)]
           IN  IF state \in {GAME_STATE.GAMEPLAY, GAME_STATE.LEVEL_TRANSITION}
               THEN /\ \E draws \in FrameDraws(lightSources, dt) :
                           updateGameplay(dt, elapsedTime + dt, draws)
                    /\ timers' = IF frame'.calledCompleteLevel /\ state' # GAME_STATE.WIN
                                 THEN Append(due, TransitionDelay)
                                 ELSE due
                    /\ UNCHANGED <<levelDuration, obstacles, games, query>>
               ELSE /\ timers' = due
                    /\ frame' = [NoFrame EXCEPT !.deltaTime = dt]
                    /\ UNCHANGED <<state, level, score, highScore, storedHighScore,
                                   difficulty, levelDuration, player, obstacles,
                                   lightSources, playerInLight, games, query>>

\* game.gameLoop(timestamp): the clock advances by deltaTime, and the
\* animation frame runs
Frame ==
    \E dt \in ClockSteps(levelDuration) :
        /\ StepAllowed(dt)
        /\ elapsedTime' = elapsedTime + dt
        /\ LET due == [i \in 1..Len(timers) |-> Max(0, timers[i] - dt)]
           IN  IF state = GAME_STATE.GAMEPLAY
               THEN /\ \E draws \in FrameDraws(lightSources, dt) :
                           updateGameplay(dt, elapsedTime + dt, draws)
                    /\ timers' = IF frame'.calledCompleteLevel /\ state' # GAME_STATE.WIN
                                 THEN Append(due, TransitionDelay)
                                 ELSE due
                    /\ UNCHANGED <<levelDuration, obstacles, games, query>>
               ELSE /\ timers' = due
                    /\ frame' = [NoFrame EXCEPT !.deltaTime = dt]
                    /\ UNCHANGED <<state, level, score, highScore, storedHighScore,
                                   difficulty, levelDuration, player, obstacles,
                                   lightSources, playerInLight, games, query>>

\* the highScore found in localStorage when the page loads
StoredHighScores == {0, 15000}

Init ==
    /\ state = GAME_STATE.MENU
    /\ level = 1
    /\ score = 0
    /\ storedHighScore \in StoredHighScores
    /\ highScore = storedHighScore
    /\ difficulty = 10
    /\ levelDuration = 30000
    /\ elapsedTime = 0
    /\ timers = <<>>
    /\ player = InitialPlayer
    /\ obstacles = <<>>
    /\ lightSources = <<>>
    /\ playerInLight = FALSE
    /\ frame = NoFrame
    /\ games = 0
    /\ query = NoQuery

Next ==
    \/ StartGame
    \/ TimerFire
    \/ MouseMove
    \/ KeyS
    \/ Frame

Spec == Init /\ [][Next]_vars

\* The running page with its scheduling: gameLoop asks for the next animation
\* frame at the end of every pass (game.js:406, first at game.js:216), and a
\* callback given to setTimeout (game.js:333-335) runs once it is due
\* gameLoop runs: the clock advances by a deltaTime that Frame admits
FrameDelivered ==
    \E dt \in ClockSteps(levelDuration) :
        /\ StepAllowed(dt)
        /\ elapsedTime' = elapsedTime + dt
        /\ state = GAME_STATE.GAMEPLAY =>
             \E draws \in FrameDraws(lightSources, dt) :
                InArea(PlayerUpdate(player, dt),
                       [i \in 1..Len(lightSources) |->
                            LightUpdate(lightSources[i], dt, draws[i])])

\* the page with the pointer at rest
ProgressNext ==
    \/ StartGame
    \/ TimerFire
    \/ KeyS
    \/ Frame

ProgressSpec ==
    /\ Init
    /\ [][ProgressNext]_vars
    /\ WF_elapsedTime(FrameDelivered)
    /\ WF_vars(TimerFire)

----------------------------------------------------------------------------
(* Shadow rendering of LightSource *)

\* this.rayCount
rayCount == 360

\* this.optimizedRayCount
optimizedRayCount == 60

\* castRays: const rayCount = this.useOptimizedShadows ? this.optimizedRayCount
\* : this.rayCount; the value is used by no later statement of castRays
RayCount(l) == IF l.useOptimizedShadows THEN optimizedRayCount ELSE rayCount

\* castRays: const corners = obstacle.getCorners()
CastRaysCorners(l, o) == getCorners(o)

\* castRays: what is drawn for one obstacle: for each corner the two shadow
\* rays of castShadowRay and the triangle light, corner, nextCorner
ShadowPrimitives(l, o) ==
    LET edges == Edges(CastRaysCorners(l, o))
    IN  [k \in 1..(3 * Len(edges)) |->
            LET edge == edges[((k - 1) \div 3) + 1]
            IN  CASE (k - 1) % 3 = 0 -> [kind |-> "ray", from |-> edge[1], to |-> edge[1]]
                  [] (k - 1) % 3 = 1 -> [kind |-> "ray", from |-> edge[2], to |-> edge[2]]
                  [] OTHER -> [kind |-> "triangle", from |-> edge[1], to |-> edge[2]]]

----------------------------------------------------------------------------
(* The audio object: direct calls of toggleMute and playSound *)

\* how many calls are followed
MaxAudioCalls == 4

\* the names of soundsToLoad, and one that is not loaded
LoadedSounds ==
    {"playerMove", "lightDetection", "levelComplete", "gameOver", "buttonClick"}

SoundNames == LoadedSounds \cup {"unknown"}

\* the audio object after audio.init: sounds is empty when the AudioContext
\* constructor has thrown; started lists the sounds for which playSound got
\* past its guard; lastCall, mutedBefore and returned describe the last call
AudioAfterInit(sounds) ==
    [kind |-> "audio", isMuted |-> FALSE, sounds |-> sounds,
     buttonText |-> "", started |-> <<>>, calls |-> 0,
     lastCall |-> "none", mutedBefore |-> FALSE, returned |-> FALSE]

\* faulty variant of toggleMute: the sound is switched off, not toggled
toggleMute_off(a) ==
    [a EXCEPT !.isMuted = TRUE,
              !.buttonText = "Sound: OFF",
              !.returned = TRUE]

\* audio.toggleMute
toggleMute(a) ==
    [a EXCEPT !.isMuted = ~a.isMuted,
              !.buttonText = IF ~a.isMuted THEN "Sound: OFF" ELSE "Sound: ON",
              !.returned = ~a.isMuted]

\* audio.playSound(name)
playSound(a, name) ==
    IF a.isMuted \/ name \notin a.sounds
    THEN a
    ELSE [a EXCEPT !.started = Append(a.started, name)]

\* the click on toggleSound and the key 'm'
ToggleMute ==
    /\ query.calls < MaxAudioCalls
    /\ query' = [toggleMute(query) EXCEPT !.calls = query.calls + 1,
                                          !.lastCall = "toggleMute",
                                          !.mutedBefore = query.isMuted]
    /\ UNCHANGED <<state, level, score, highScore, storedHighScore,
                   difficulty, levelDuration, elapsedTime, timers, player,
                   obstacles, lightSources, playerInLight, frame, games>>

\* a call of audio.playSound
PlaySound ==
    /\ query.calls < MaxAudioCalls
    /\ \E name \in SoundNames :
         query' = [playSound(query, name) EXCEPT !.calls = query.calls + 1,
                                                !.lastCall = "playSound",
                                                !.mutedBefore = query.isMuted]
    /\ UNCHANGED <<state, level, score, highScore, storedHighScore,
                   difficulty, levelDuration, elapsedTime, timers, player,
                   obstacles, lightSources, playerInLight, frame, games>>

AudioInit ==
    /\ state = GAME_STATE.MENU
    /\ level = 1
    /\ score = 0
    /\ storedHighScore = 0
    /\ highScore = 0
    /\ difficulty = 10
    /\ levelDuration = 30000
    /\ elapsedTime = 0
    /\ timers = <<>>
    /\ player = InitialPlayer
    /\ obstacles = <<>>
    /\ lightSources = <<>>
    /\ playerInLight = FALSE
    /\ frame = NoFrame
    /\ games = 0
    /\ query \in {AudioAfterInit(LoadedSounds), AudioAfterInit({})}

AudioNext ==
    \/ ToggleMute
    \/ PlaySound

AudioSpec == AudioInit /\ [][AudioNext]_vars

----------------------------------------------------------------------------
(* Direct calls of the visibility queries on given scenes *)

\* the scenes explored: light positions and intensities, obstacle lists,
\* player positions and radii
SceneLightA == [x |-> 100, y |-> 100, intensity |-> 300]

SceneLightB == [x |-> 600, y |-> 100, intensity |-> 600]

\* lights without intensity
SceneLightC == [x |-> 100, y |-> 100, intensity |-> 0]

SceneLightD == [x |-> 100, y |-> 100, intensity |-> -10]

SceneLightLists ==
    { <<>>, <<SceneLightA>>, <<SceneLightB>>, <<SceneLightA, SceneLightB>>,
      <<SceneLightB, SceneLightA>>, <<SceneLightC>>, <<SceneLightD>> }

SceneObstacleLists ==
    { <<>>,
      << Rect(300, 200, 100, 50) >>,
      << Rect(300, 200, 100, 50), Rect(500, 400, 80, 80) >>,
      << Poly(<< Pt(300, 300), Pt(400, 300), Pt(400, 100), Pt(300, 100) >>) >>,
      << Poly(<< Pt(200, 100), Pt(300, 100) >>) >>,
      << Circ(200, 150, 30), Rect(300, 200, 100, 50) >>,
      << Poly(<< >>) >>,
      << Poly(<< Pt(200, 150) >>) >>,
      << Poly(<< Pt(200, 100), Pt(200, 300) >>) >> }

ScenePoints ==
    { Pt(350, 225), Pt(100, 400), Pt(500, 100), Pt(415, 100), Pt(416, 100),
      Pt(200, 150), Pt(300, 200), Pt(100, 100), Pt(350, 350), Pt(110, 100) }

SceneRadii == {0, PlayerRadius}

\* new LightSource(x, y, 10, color, intensity, 0) at rest
SceneLight(d) ==
    NewLightSource(d.x, d.y, LightRadius, d.intensity, 0, "circle", 0, [x |-> 0, y |-> 0])

\* the list s without its j-th element
RemoveAt(s, j) == [i \in 1..(Len(s) - 1) |-> IF i < j THEN s[i] ELSE s[i + 1]]

\* light.checkPlayerInLight(player) for the i-th light, over the obstacles
\* array, or over the array with its j-th obstacle removed (j = 0: none)
CheckQuery ==
    \E i \in 1..Len(lightSources) : \E j \in 0..Len(obstacles) :
        LET obs == IF j = 0 THEN obstacles ELSE RemoveAt(obstacles, j)
        IN  /\ query' = [kind |-> "checkPlayerInLight",
                         light |-> lightSources[i], player |-> player,
                         obstacles |-> obs,
                         removed |-> IF j = 0 THEN <<>> ELSE <<obstacles[j]>>,
                         result |-> checkPlayerInLight(lightSources[i], player, obs)]
            /\ UNCHANGED <<state, level, score, highScore, storedHighScore,
                           difficulty, levelDuration, elapsedTime, timers, player,
                           obstacles, lightSources, playerInLight, frame, games>>

\* faulty variant of ShadowQuery: the corners computed for the obstacle are
\* kept in it
ShadowQuery_caching ==
    \E i \in 1..Len(lightSources) : \E j \in 1..Len(obstacles) :
        /\ query' = [kind |-> "isPointInShadow",
                     light |-> lightSources[i], player |-> player,
                     obstacle |-> obstacles[j],
                     result |-> isPointInShadow(lightSources[i], player, obstacles[j])]
        /\ obstacles' = [obstacles EXCEPT ![j].points = getCorners(obstacles[j])]
        /\ UNCHANGED <<state, level, score, highScore, storedHighScore,
                       difficulty, levelDuration, elapsedTime, timers, player,
                       lightSources, playerInLight, frame, games>>

\* light.isPointInShadow(player, obstacle) for the i-th light and the j-th
\* obstacle
ShadowQuery ==
    \E i \in 1..Len(lightSources) : \E j \in 1..Len(obstacles) :
        /\ query' = [kind |-> "isPointInShadow",
                     light |-> lightSources[i], player |-> player,
                     obstacle |-> obstacles[j],
                     result |-> isPointInShadow(lightSources[i], player, obstacles[j])]
        /\ UNCHANGED <<state, level, score, highScore, storedHighScore,
                       difficulty, levelDuration, elapsedTime, timers, player,
                       obstacles, lightSources, playerInLight, frame, games>>

\* light.castRays() for the i-th light: what it draws for each obstacle
CastRays ==
    \E i \in 1..Len(lightSources) :
        /\ query' = [kind |-> "castRays",
                     light |-> lightSources[i], obstacles |-> obstacles,
                     rayCount |-> RayCount(lightSources[i]),
                     primitives |-> [j \in 1..Len(obstacles) |->
                                        ShadowPrimitives(lightSources[i], obstacles[j])]]
        /\ UNCHANGED <<state, level, score, highScore, storedHighScore,
                       difficulty, levelDuration, elapsedTime, timers, player,
                       obstacles, lightSources, playerInLight, frame, games>>

\* the loop of updateGameplay over the lights (game.js:422-428) on the scene
IlluminationQuery ==
    /\ playerInLight' = PlayerInLight(lightSources, player, obstacles)
    /\ query' = [kind |-> "playerInLight", lights |-> lightSources,
                 player |-> player, obstacles |-> obstacles,
                 result |-> playerInLight']
    /\ UNCHANGED <<state, level, score, highScore, storedHighScore,
                   difficulty, levelDuration, elapsedTime, timers, player,
                   obstacles, lightSources, frame, games>>

VisInit ==
    /\ state = GAME_STATE.GAMEPLAY
    /\ level = 1
    /\ score = 0
    /\ storedHighScore = 0
    /\ highScore = 0
    /\ difficulty = 10
    /\ levelDuration = 30000
    /\ elapsedTime = 0
    /\ timers = <<>>
    /\ \E pt \in ScenePoints : \E r \in SceneRadii :
         player = [InitialPlayer EXCEPT !.x = pt.x, !.y = pt.y,
                                        !.targetX = pt.x, !.targetY = pt.y,
                                        !.radius = r]
    /\ obstacles \in SceneObstacleLists
    /\ \E ls \in SceneLightLists :
         lightSources = [i \in 1..Len(ls) |-> SceneLight(ls[i])]
    /\ playerInLight = FALSE
    /\ frame = NoFrame
    /\ games = 0
    /\ query = NoQuery

VisNext ==
    \/ CheckQuery
    \/ ShadowQuery
    \/ CastRays
    \/ IlluminationQuery
    \/ KeyS

VisSpec == VisInit /\ [][VisNext]_vars

----------------------------------------------------------------------------
(* Direct calls of lineIntersection on segments of a small grid *)

\* the coordinates of the segments' end points: 0..MaxGrid
MaxGrid == 2

Grid == 0..MaxGrid

LineQuery ==
    /\ query.kind = "segments"
    /\ query' = [query EXCEPT
                    !.kind = "lineIntersection",
                    !.result = lineIntersection(query.x1, query.y1, query.x2, query.y2,
                                                query.x3, query.y3, query.x4, query.y4)]
    /\ UNCHANGED <<state, level, score, highScore, storedHighScore,
                   difficulty, levelDuration, elapsedTime, timers, player,
                   obstacles, lightSources, playerInLight, frame, games>>

LineInit ==
    /\ state = GAME_STATE.MENU
    /\ level = 1
    /\ score = 0
    /\ storedHighScore = 0
    /\ highScore = 0
    /\ difficulty = 10
    /\ levelDuration = 30000
    /\ elapsedTime = 0
    /\ timers = <<>>
    /\ player = InitialPlayer
    /\ obstacles = <<>>
    /\ lightSources = <<>>
    /\ playerInLight = FALSE
    /\ frame = NoFrame
    /\ games = 0
    /\ query \in [kind : {"segments"}, x1 : Grid, y1 : Grid, x2 : Grid, y2 : Grid,
                  x3 : Grid, y3 : Grid, x4 : Grid, y4 : Grid, result : {FALSE}]

LineNext == LineQuery

LineSpec == LineInit /\ [][LineNext]_vars

----------------------------------------------------------------------------
(* The lights of a loaded level, updated frame after frame *)

\* the longest time over which the lights are followed
MaxLightElapsed == 6100

\* the deltaTime of an update: none, a short one, a medium one
LightSteps == {0, ShortStep, MediumStep}

\* lightSources.forEach(light => light.update(deltaTime)) (game.js:418-420)
LightsUpdate ==
    \E dt \in LightSteps :
        /\ elapsedTime + dt <= MaxLightElapsed
        /\ dt = ShortStep => (elapsedTime % MediumStep) < ShortStep * MaxShortSteps
        /\ \E draws \in FrameDraws(lightSources, dt) :
             \E ls1 \in {[i \in 1..Len(lightSources) |->
                               LightUpdate(lightSources[i], dt, draws[i])]} :
                /\ InArea(player, ls1)
                /\ lightSources' = ls1
                /\ query' = [kind |-> "update", deltaTime |-> dt,
                             before |-> lightSources, draws |-> draws]
        /\ elapsedTime' = elapsedTime + dt
        /\ UNCHANGED <<state, level, score, highScore, storedHighScore,
                       difficulty, levelDuration, timers, player,
                       obstacles, playerInLight, frame, games>>

\* the state after startLevel(lvl), for each level and each outcome of the
\* constructors' Math.random() calls
LightInit ==
    /\ state = GAME_STATE.GAMEPLAY
    /\ level \in 1..maxLevel
    /\ score = 0
    /\ storedHighScore = 0
    /\ highScore = 0
    /\ difficulty = 10 + 2 * (level - 1)
    /\ levelDuration = LevelData(level).timeToSurvive
    /\ elapsedTime = 0
    /\ timers = <<>>
    /\ player = PlayerReset(InitialPlayer)
    /\ obstacles = LoadObstacles(level)
    /\ \E draws \in LevelDraws(level) : lightSources = LoadLightSources(level, draws)
    /\ playerInLight = FALSE
    /\ frame = NoFrame
    /\ games = 1
    /\ query = NoQuery

LightNext == LightsUpdate

LightSpec == LightInit /\ [][LightNext]_vars

----------------------------------------------------------------------------
(* One pass of gameLoop, statement by statement *)

\* the longest time over which the passes are followed
MaxTickElapsed == 2100

\* the deltaTime of a pass
TickSteps == {ShortStep, MediumStep}

\* between two passes: `scheduled' callbacks of requestAnimationFrame wait
IdleTick(scheduled) ==
    [kind |-> "tick", phase |-> "idle", index |-> 0, deltaTime |-> 0,
     gameplay |-> FALSE, lit |-> FALSE, scheduled |-> scheduled,
     playerUpdated |-> FALSE, lightsUpdated |-> 0, queried |-> 0,
     exposureUpdated |-> FALSE, rendered |-> FALSE]

\* faulty variant of PhaseAfter: the lights are queried before they move
PhaseAfter_queryFirst(phase, i, n) ==
    CASE phase = "update_player" ->
            IF n >= 1 THEN [phase |-> "query", index |-> 1]
            ELSE [phase |-> "exposure", index |-> 0]
      [] phase = "query" ->
            IF i < n THEN [phase |-> "query", index |-> i + 1]
            ELSE [phase |-> "update_lights", index |-> 1]
      [] phase = "update_lights" ->
            IF i < n THEN [phase |-> "update_lights", index |-> i + 1]
            ELSE [phase |-> "exposure", index |-> 0]
      [] phase = "exposure" -> [phase |-> "render", index |-> 0]
      [] phase = "render" -> [phase |-> "schedule", index |-> 0]
      [] OTHER -> [phase |-> "idle", index |-> 0]

\* the statement order of updateGameplay and gameLoop: what runs after the
\* i-th step of a phase, n being lightSources.length
PhaseAfter(phase, i, n) ==
    CASE phase = "update_player" ->
            IF n >= 1 THEN [phase |-> "update_lights", index |-> 1]
            ELSE [phase |-> "exposure", index |-> 0]
      [] phase = "update_lights" ->
            IF i < n THEN [phase |-> "update_lights", index |-> i + 1]
            ELSE [phase |-> "query", index |-> 1]
      [] phase = "query" ->
            IF i < n THEN [phase |-> "query", index |-> i + 1]
            ELSE [phase |-> "exposure", index |-> 0]
      [] phase = "exposure" -> [phase |-> "render", index |-> 0]
      [] phase = "render" -> [phase |-> "schedule", index |-> 0]
      [] OTHER -> [phase |-> "idle", index |-> 0]

\* the query record after the i-th step of its phase
Advance(q, n) ==
    LET next == PhaseAfter(q.phase, q.index, n)
    IN  [q EXCEPT !.phase = next.phase, !.index = next.index]

\* a requestAnimationFrame callback runs: gameLoop computes deltaTime and
\* switches on the state
TickStart ==
    /\ query.phase = "idle"
    /\ query.scheduled >= 1
    /\ \E dt \in TickSteps :
         /\ elapsedTime + dt <= MaxTickElapsed
         /\ dt = ShortStep => (elapsedTime % MediumStep) < ShortStep * MaxShortSteps
         /\ elapsedTime' = elapsedTime + dt
         /\ query' = [IdleTick(query.scheduled - 1) EXCEPT
                         !.deltaTime = dt,
                         !.gameplay = (state = GAME_STATE.GAMEPLAY),
                         !.phase = IF state = GAME_STATE.GAMEPLAY
                                   THEN "update_player" ELSE "render"]
    /\ UNCHANGED <<state, level, score, highScore, storedHighScore, difficulty,
                   levelDuration, timers, player, obstacles, lightSources,
                   playerInLight, frame, games>>

\* updateGameplay: player.update(deltaTime)
TickUpdatePlayer ==
    /\ query.phase = "update_player"
    /\ player' = PlayerUpdate(player, query.deltaTime)
    /\ query' = [Advance(query, Len(lightSources)) EXCEPT !.playerUpdated = TRUE]
    /\ UNCHANGED <<state, level, score, highScore, storedHighScore, difficulty,
                   levelDuration, elapsedTime, timers, obstacles, lightSources,
                   playerInLight, frame, games>>

\* updateGameplay: light.update(deltaTime) of the next light
TickUpdateLight ==
    /\ query.phase = "update_lights"
    /\ \E draw \in (IF NeedsDraw(lightSources[query.index], query.deltaTime)
                     THEN Draws ELSE {NoDraw}) :
         lightSources' = [lightSources EXCEPT ![query.index] =
                             LightUpdate(lightSources[query.index], query.deltaTime, draw)]
    /\ query' = [Advance(query, Len(lightSources)) EXCEPT
                    !.lightsUpdated = query.lightsUpdated + 1]
    /\ UNCHANGED <<state, level, score, highScore, storedHighScore, difficulty,
                   levelDuration, elapsedTime, timers, player, obstacles,
                   playerInLight, frame, games>>

\* updateGameplay: light.checkPlayerInLight(player) of the next light
TickQuery ==
    /\ query.phase = "query"
    /\ query' = [Advance(query, Len(lightSources)) EXCEPT
                    !.queried = query.queried + 1,
                    !.lit = query.lit \/ checkPlayerInLight(lightSources[query.index],
                                                            player, obstacles)]
    /\ UNCHANGED <<state, level, score, highScore, storedHighScore, difficulty,
                   levelDuration, elapsedTime, timers, player, obstacles,
                   lightSources, playerInLight, frame, games>>

\* updateGameplay: the exposure, the score and the level completion
TickExposure ==
    /\ query.phase = "exposure"
    /\ updateExposure(player, lightSources, query.lit, query.deltaTime, elapsedTime)
    /\ timers' = IF frame'.calledCompleteLevel /\ state' # GAME_STATE.WIN
                 THEN Append(timers, TransitionDelay)
                 ELSE timers
    /\ query' = [Advance(query, Len(lightSources)) EXCEPT !.exposureUpdated = TRUE]
    /\ UNCHANGED <<levelDuration, elapsedTime, obstacles, games>>

\* gameLoop: the render call of the state's case
TickRender ==
    /\ query.phase = "render"
    /\ query' = [Advance(query, Len(lightSources)) EXCEPT !.rendered = TRUE]
    /\ UNCHANGED <<state, level, score, highScore, storedHighScore, difficulty,
                   levelDuration, elapsedTime, timers, player, obstacles,
                   lightSources, playerInLight, frame, games>>

\* gameLoop: requestAnimationFrame(this.gameLoop.bind(this))
TickSchedule ==
    /\ query.phase = "schedule"
    /\ query' = [Advance(query, Len(lightSources)) EXCEPT
                    !.scheduled = query.scheduled + 1]
    /\ UNCHANGED <<state, level, score, highScore, storedHighScore, difficulty,
                   levelDuration, elapsedTime, timers, player, obstacles,
                   lightSources, playerInLight, frame, games>>

\* the handlers run between two passes, never inside one
TickMouseMove == query.phase = "idle" /\ MouseMove

TickKeyS == query.phase = "idle" /\ KeyS

\* the page after game.init (one callback scheduled) and a click on Start
\* Game or a level transition: a loaded level
TickInit ==
    /\ state = GAME_STATE.GAMEPLAY
    /\ level \in 1..maxLevel
    /\ score = 0
    /\ storedHighScore = 0
    /\ highScore = 0
    /\ difficulty = 10 + 2 * (level - 1)
    /\ levelDuration = LevelData(level).timeToSurvive
    /\ elapsedTime = 0
    /\ timers = <<>>
    /\ player = PlayerReset(InitialPlayer)
    /\ obstacles = LoadObstacles(level)
    /\ \E draws \in LevelDraws(level) : lightSources = LoadLightSources(level, draws)
    /\ playerInLight = FALSE
    /\ frame = NoFrame
    /\ games = 1
    /\ query = IdleTick(1)

TickNext ==
    \/ TickStart
    \/ TickUpdatePlayer
    \/ TickUpdateLight
    \/ TickQuery
    \/ TickExposure
    \/ TickRender
    \/ TickSchedule
    \/ TickMouseMove
    \/ TickKeyS

TickSpec == TickInit /\ [][TickNext]_vars

----------------------------------------------------------------------------
(* Properties *)

\* the lights ls with their useOptimizedShadows flags set to flags
WithFlags(ls, flags) ==
    [i \in 1..Len(ls) |-> [ls[i] EXCEPT !.useOptimizedShadows = flags[i]]]

\* a step of the 's' key handler
ShadowQualityToggled ==
    /\ lightSources' = ToggleShadowQuality(lightSources)
    /\ games' = games /\ timers' = timers /\ elapsedTime' = elapsedTime

\* C1: the classification of a gameplay frame is the same under every setting
\* of the lights' useOptimizedShadows flags, and a press of the S key changes
\* nothing but these flags: neither the classification, nor the exposure
\* accumulator, nor the game state, level or score.
C1_QualityInvariance ==
    /\ [](frame.gameplay =>
            \A flags \in [1..Len(lightSources) -> BOOLEAN] :
                /\ playerInLight
                      = (\E i \in 1..Len(lightSources) :
                            checkPlayerInLight(WithFlags(lightSources, flags)[i],
                                               player, obstacles))
                /\ frame.lit = playerInLight)
    /\ [][ShadowQualityToggled =>
            UNCHANGED <<state, level, score, highScore, storedHighScore, difficulty,
                        player, obstacles, playerInLight, frame>>]_vars

\* C1 witness: after S was pressed (a flag is off), a gameplay frame found the
\* player within the radius of a light and in shadow, and another one lit
C1_Witness ==
    /\ frame.gameplay
    /\ \E i \in 1..Len(lightSources) :
          /\ ~lightSources[i].useOptimizedShadows
          /\ WithinLightRadius(lightSources[i], player)
    /\ ~playerInLight
    /\ player.exposureTime > 0

\* the segment from the light to the player of the last query
SightBlockedBy(o) ==
    LET c == getCorners(o)
        n == Len(c)
    IN  \E i \in 0..(n - 1) :
            lineIntersection(query.light.x, query.light.y,
                             query.player.x, query.player.y,
                             c[i + 1].x, c[i + 1].y,
                             c[((i + 1) % n) + 1].x, c[((i + 1) % n) + 1].y)

\* distance <= intensity + radius for the last query
QueryInReach ==
    LET dx == query.player.x - query.light.x
        dy == query.player.y - query.light.y
        r == query.light.intensity + query.player.radius
    IN  r >= 0 /\ dx * dx + dy * dy <= r * r

\* C2: for a point within intensity + radius of the light, checkPlayerInLight
\* returns true exactly when no edge of any obstacle, the closing edge from
\* the last corner to the first included, intersects the segment from the
\* light to the point.
C2_LitIffNoEdgeIntersects ==
    (query.kind = "checkPlayerInLight" /\ QueryInReach) =>
        (query.result <=>
            ~ \E k \in 1..Len(query.obstacles) : SightBlockedBy(query.obstacles[k]))

\* C2 witness: a point within reach that is in shadow only because of the
\* closing edge of a polygon
C2_Witness ==
    /\ query.kind = "checkPlayerInLight"
    /\ QueryInReach
    /\ ~query.result
    /\ Len(query.obstacles) = 1
    /\ query.obstacles[1].type = "polygon"
    /\ LET c == getCorners(query.obstacles[1])
           n == Len(c)
       IN  /\ n > 2
           /\ \A i \in 1..(n - 1) :
                 ~lineIntersection(query.light.x, query.light.y,
                                   query.player.x, query.player.y,
                                   c[i].x, c[i].y, c[i + 1].x, c[i + 1].y)

\* C3: for a point farther from the light than intensity + radius,
\* checkPlayerInLight returns false whatever the obstacles are.
C3_RadiusCutoff ==
    (query.kind = "checkPlayerInLight" /\ ~QueryInReach) => ~query.result

\* C3 witness: distance 400, intensity 300, radius 0, no obstacle
C3_Witness ==
    /\ query.kind = "checkPlayerInLight"
    /\ query.obstacles = <<>>
    /\ query.light.intensity = 300
    /\ query.player.radius = 0
    /\ query.player.y = query.light.y
    /\ query.player.x - query.light.x = 400
    /\ ~query.result

\* C4: the playerInLight of a frame is false for an empty light list and
\* otherwise the logical OR, over the lights, of checkPlayerInLight(player).
C4_OrCombination ==
    query.kind = "playerInLight" =>
        /\ Len(query.lights) = 0 => ~query.result
        /\ query.result
              = (\E i \in 1..Len(query.lights) :
                    checkPlayerInLight(query.lights[i], query.player, query.obstacles))
        /\ playerInLight = query.result

\* C4 witness: two lights, the first one clear and the second one occluded,
\* and the player counts as lit
C4_Witness ==
    /\ query.kind = "playerInLight"
    /\ Len(query.lights) = 2
    /\ checkPlayerInLight(query.lights[1], query.player, query.obstacles)
    /\ WithinLightRadius(query.lights[2], query.player)
    /\ ~checkPlayerInLight(query.lights[2], query.player, query.obstacles)
    /\ query.result

\* C5 as stated: if the segment from the light to the point intersects an
\* edge of an obstacle, checkPlayerInLight returns false; with that obstacle
\* removed and no other obstacle blocking, it returns true.
C5_Original ==
    query.kind = "checkPlayerInLight" =>
        /\ \A k \in 1..Len(query.obstacles) :
              SightBlockedBy(query.obstacles[k]) => ~query.result
        /\ ( /\ query.removed # <<>>
             /\ SightBlockedBy(query.removed[1])
             /\ \A k \in 1..Len(query.obstacles) : ~SightBlockedBy(query.obstacles[k]) )
           => query.result

\* C5, amended: if the segment from the light to the point intersects an
\* edge of an obstacle, checkPlayerInLight returns false; with that obstacle
\* removed, no other obstacle blocking, and the point within intensity +
\* radius of the light, it returns true.
C5_OccluderBlocks ==
    query.kind = "checkPlayerInLight" =>
        /\ \A k \in 1..Len(query.obstacles) :
              SightBlockedBy(query.obstacles[k]) => ~query.result
        /\ ( /\ query.removed # <<>>
             /\ SightBlockedBy(query.removed[1])
             /\ \A k \in 1..Len(query.obstacles) : ~SightBlockedBy(query.obstacles[k])
             /\ QueryInReach )
           => query.result

\* C5 witness: the blocking obstacle was removed, another obstacle that does
\* not block stays, and the point within reach is lit
C5_Witness ==
    /\ query.kind = "checkPlayerInLight"
    /\ query.removed # <<>>
    /\ SightBlockedBy(query.removed[1])
    /\ Len(query.obstacles) > 0
    /\ QueryInReach
    /\ query.result

\* ua and ub of the last lineIntersection call, as numerators over the
\* common denominator
QueryDenominator ==
    Denominator(query.x1, query.y1, query.x2, query.y2,
                query.x3, query.y3, query.x4, query.y4)

QueryNumA ==
    NumA(query.x1, query.y1, query.x2, query.y2,
         query.x3, query.y3, query.x4, query.y4)

QueryNumB ==
    NumB(query.x1, query.y1, query.x2, query.y2,
         query.x3, query.y3, query.x4, query.y4)

\* C6: with a non-zero denominator, lineIntersection returns true exactly
\* when 0 <= ua <= 1 and 0 <= ub <= 1, end points included.
C6_ClosedInterval ==
    (query.kind = "lineIntersection" /\ QueryDenominator # 0) =>
        (query.result <=>
            /\ QueryNumA * QueryDenominator >= 0
            /\ QueryNumA * QueryDenominator <= QueryDenominator * QueryDenominator
            /\ QueryNumB * QueryDenominator >= 0
            /\ QueryNumB * QueryDenominator <= QueryDenominator * QueryDenominator)

\* C6 witness: the first segment only touches an end point of the second
\* (ub = 0 or ub = 1) away from its own end points, and the call returns true
C6_Witness ==
    /\ query.kind = "lineIntersection"
    /\ QueryDenominator # 0
    /\ QueryNumB = 0 \/ QueryNumB = QueryDenominator
    /\ QueryNumA # 0 /\ QueryNumA # QueryDenominator
    /\ query.result

\* C7: when the denominator is 0 (parallel or collinear segments, zero-length
\* ones included), lineIntersection returns false.
C7_ParallelPolicy ==
    (query.kind = "lineIntersection" /\ QueryDenominator = 0) => ~query.result

\* C7 witness: two collinear segments of positive length that share more
\* than a point (the second lies within the first), and the call returns false
C7_Witness ==
    /\ query.kind = "lineIntersection"
    /\ QueryDenominator = 0
    /\ query.y1 = query.y2 /\ query.y3 = query.y1 /\ query.y4 = query.y1
    /\ query.x1 < query.x3 /\ query.x3 < query.x4 /\ query.x4 <= query.x2
    /\ ~query.result

\* Scenario A: one obstacle Rectangle(300,200,100,50), light at (100,100)
\* with intensity 300, player at (350,225)
ScenarioA ==
    /\ query.kind = "checkPlayerInLight"
    /\ query.obstacles = << Rect(300, 200, 100, 50) >>
    /\ query.light.x = 100 /\ query.light.y = 100 /\ query.light.intensity = 300
    /\ query.player.x = 350 /\ query.player.y = 225

\* C8: in Scenario A checkPlayerInLight returns false.
C8_ScenarioA == ScenarioA => ~query.result

\* C8 witness: Scenario A was queried, with the player's radius of 15; the
\* sight line meets the rectangle's boundary at the corner (300,200) only
C8_Witness ==
    /\ ScenarioA
    /\ query.player.radius = PlayerRadius
    /\ ~query.result
    /\ lineIntersection(100, 100, 350, 225, 300, 200, 400, 200)
    /\ ~lineIntersection_open(100, 100, 350, 225, 300, 200, 400, 200)
    /\ ~lineIntersection(100, 100, 350, 225, 400, 200, 400, 250)
    /\ ~lineIntersection(100, 100, 350, 225, 400, 250, 300, 250)

\* C9 as stated: 0 <= player.exposureTime <= player.maxExposureTime in every
\* reachable state.
C9_ExposureInvariant ==
    0 <= player.exposureTime /\ player.exposureTime <= maxExposureTime

\* C10 as stated: a gameplay frame in which the exposure accumulator reaches
\* or exceeds maxExposureTime ends in the state GAME_OVER, also when the
\* level's time is up in the same frame.
C10_LosingEndsGame ==
    (frame.gameplay /\ frame.lit /\ player.exposureTime >= maxExposureTime)
        => state = GAME_STATE.GAME_OVER

\* the lights that follow the pattern pat, after an update
UpdatedLights(pat) ==
    IF query.kind = "update"
    THEN {i \in 1..Len(lightSources) : lightSources[i].movementPattern = pat}
    ELSE {}

\* x in [radius, game.width - radius] and y in [radius, game.height - radius]
WithinMargins(l) ==
    /\ l.radius <= l.x /\ l.x <= GameWidth - l.radius
    /\ l.radius <= l.y /\ l.y <= GameHeight - l.radius

\* C11 as stated: after every update a 'linear' light has x in
\* [radius, game.width - radius] and y in [radius, game.height - radius].
C11_LinearWithinMargins ==
    \A i \in UpdatedLights("linear") : WithinMargins(lightSources[i])

\* C12: after every update a 'random' light has x in
\* [radius, game.width - radius] and y in [radius, game.height - radius].
C12_RandomWithinMargins ==
    \A i \in UpdatedLights("random") : WithinMargins(lightSources[i])

\* C12 witness: the update moved a 'random' light past the lower edge of the
\* world; it sits on the margin and its direction points back up
C12_Witness ==
    \E i \in UpdatedLights("random") :
        /\ lightSources[i].y = GameHeight - lightSources[i].radius
        /\ query.before[i].y < lightSources[i].y
        /\ query.before[i].y
             + RoundDiv((IF NeedsDraw(query.before[i], query.deltaTime)
                         THEN query.draws[i].dir.y
                         ELSE query.before[i].linearDirection.y) * query.deltaTime, 20000)
             > GameHeight - lightSources[i].radius
        /\ lightSources[i].linearDirection.y < 0

\* C13 as stated: after every update every light of the loaded level is
\* inside [0, game.width] x [0, game.height].
C13_LightsInsideWorld ==
    frame.gameplay =>
        \A i \in 1..Len(lightSources) :
            /\ 0 <= lightSources[i].x /\ lightSources[i].x <= GameWidth
            /\ 0 <= lightSources[i].y /\ lightSources[i].y <= GameHeight

\* C14 as stated: a light whose intensity is zero or negative never
\* illuminates: checkPlayerInLight returns false for every position and
\* every obstacle set.
C14_NoIntensityNoLight ==
    (query.kind = "checkPlayerInLight" /\ query.light.intensity <= 0)
        => ~query.result

\* C15 as stated: for an obstacle whose boundary has fewer than 3 points
\* isPointInShadow returns false.
C15_MalformedCastsNoShadow ==
    (query.kind = "isPointInShadow" /\ Len(getCorners(query.obstacle)) < 3)
        => ~query.result

\* an edge from a boundary point to the next one (the last to the first)
\* that has no length
ZeroLengthEdge(corners) ==
    \E i \in 1..Len(corners) :
        corners[i] = corners[(i % Len(corners)) + 1]

\* C16 as stated: every obstacle of a loaded level has a boundary of at
\* least 3 points without a zero-length edge.
C16_WellFormedObstacles ==
    \A k \in 1..Len(obstacles) :
        /\ Len(getCorners(obstacles[k])) >= 3
        /\ ~ZeroLengthEdge(getCorners(obstacles[k]))

\* a step of gameLoop that runs updateGameplay
GameplayFrameStep ==
    state = GAME_STATE.GAMEPLAY /\ elapsedTime' > elapsedTime

\* C17: WIN is entered only by a gameplay frame on level 5 in which the
\* fifth level's time is up; 1 <= level <= 5 in every state, and in WIN the
\* level is 5.
C17_WinOnlyAfterLevelFive ==
    /\ [](1 <= level /\ level <= 5)
    /\ [](state = GAME_STATE.WIN => level = 5)
    /\ [][(state' = GAME_STATE.WIN /\ state # GAME_STATE.WIN) =>
            /\ GameplayFrameStep
            /\ level = 5 /\ level' = 5
            /\ frame'.calledCompleteLevel
            /\ levelDuration = PredefinedLevel5.timeToSurvive
            /\ elapsedTime' >= levelDuration]_vars

\* C17 witness: the game is won: the last frame completed level 5
C17_Witness ==
    /\ state = GAME_STATE.WIN
    /\ level = 5
    /\ frame.gameplay /\ frame.calledCompleteLevel
    /\ elapsedTime >= PredefinedLevel5.timeToSurvive

\* the callback of a level-transition timer runs
LevelStartedByTimer == Len(timers') < Len(timers)

\* C18 as stated: a gameplay frame completes the level exactly when the
\* elapsed time is >= levelDuration; a completion below level 5 raises the
\* level by 1 and enters LEVEL_TRANSITION; the next level is started once:
\* by one timer, during the transition, with no other start pending.
C18_LevelCompletion ==
    /\ [][GameplayFrameStep =>
            (frame'.calledCompleteLevel <=> elapsedTime' >= levelDuration)]_vars
    /\ [][(GameplayFrameStep /\ elapsedTime' >= levelDuration /\ level < 5) =>
            (level' = level + 1 /\ state' = GAME_STATE.LEVEL_TRANSITION)]_vars
    /\ [][LevelStartedByTimer =>
            (state = GAME_STATE.LEVEL_TRANSITION /\ timers' = <<>>)]_vars

\* C19: within one game the score never decreases; it grows by
\* deltaTime * 0.01 * level in a gameplay frame in which the player is not
\* lit, by level * 100 when the frame completes the level, and by nothing
\* else.
C19_Scoring ==
    [][games' = games =>
        /\ score' >= score
        /\ score' - score
             = (IF GameplayFrameStep /\ ~frame'.lit
                THEN frame'.deltaTime * level ELSE 0)
               + (IF GameplayFrameStep /\ frame'.calledCompleteLevel
                  THEN level * 100 * 100 ELSE 0)]_vars

\* C19 witness: level 2 was completed by a frame spent in shadow, which
\* earned twice the frame's length and the bonus of 200
C19_Witness ==
    /\ frame.gameplay /\ ~frame.lit /\ frame.calledCompleteLevel
    /\ level = 3
    /\ score >= frame.deltaTime * 2 + 2 * 100 * 100

\* C20: difficulty = 1.0 + 0.2 * (level - 1) in every state, a lit gameplay
\* frame adds deltaTime * 0.05 * (1.0 + 0.2 * (level - 1)) to the exposure,
\* and startGame returns to difficulty 1.0.
C20_DangerRate ==
    /\ [](difficulty = 10 + 2 * (level - 1))
    /\ [][(GameplayFrameStep /\ frame'.lit) =>
            player'.exposureTime - player.exposureTime
                = RoundDiv(frame'.deltaTime * 5 * (10 + 2 * (level - 1)), 10)]_vars
    /\ [][games' # games => difficulty' = 10]_vars

\* C20 witness: a second game is on level 1 with difficulty 1.0; the first
\* one scored more than the 200 points that level 1 can give before its
\* completion, so it had raised the difficulty
C20_Witness ==
    /\ games = 2
    /\ state = GAME_STATE.GAMEPLAY
    /\ level = 1 /\ difficulty = 10
    /\ highScore > PredefinedLevel1.timeToSurvive

\* C21: in a gameplay frame in which the player is lit the exposure grows by
\* deltaTime * 0.05 * difficulty and does not decrease; in a gameplay frame
\* in which the player is not lit it shrinks by deltaTime * 0.01, not below
\* 0, and does not increase; which of the two happens depends on this frame's
\* illumination only, not on the previous frame's.
C21_DangerMeterDynamics ==
    [][GameplayFrameStep =>
        /\ frame'.lit = playerInLight'
        /\ frame'.lit =>
              /\ player'.exposureTime
                    = player.exposureTime + RoundDiv(frame'.deltaTime * 5 * difficulty, 10)
              /\ player'.exposureTime >= player.exposureTime
        /\ ~frame'.lit =>
              /\ player'.exposureTime
                    = (IF player.exposureTime - frame'.deltaTime > 0
                       THEN player.exposureTime - frame'.deltaTime ELSE 0)
              /\ player'.exposureTime >= 0
              /\ player'.exposureTime <= player.exposureTime]_vars

\* C21 witness: an unlit frame that followed lit ones: the exposure gained
\* there has shrunk by this frame's deltaTime * 0.01 and is not yet 0
C21_Witness ==
    /\ frame.gameplay /\ ~frame.lit /\ ~playerInLight
    /\ player.exposureTime > 0
    /\ (player.exposureTime + frame.deltaTime) % 250 = 0

\* the game ends in this step: GAME_OVER or WIN is entered
GameEnds ==
    /\ state' \in {GAME_STATE.GAME_OVER, GAME_STATE.WIN}
    /\ state' # state

\* C22: highScore never decreases; when GAME_OVER or WIN is entered,
\* highScore >= score holds afterwards; whenever highScore is raised, the
\* stored value equals it afterwards.
C22_HighScore ==
    /\ [][highScore' >= highScore]_vars
    /\ [][GameEnds => highScore' >= score']_vars
    /\ [][highScore' > highScore => storedHighScore' = highScore']_vars

\* C22 witness: a game was lost with fewer points than the high score found
\* at page load, which therefore stayed as it was
C22_Witness ==
    /\ state = GAME_STATE.GAME_OVER
    /\ frame.calledGameOver
    /\ score > 0 /\ score < highScore
    /\ storedHighScore = highScore

\* C22 witness, second case: a game was won with a new high score, stored
C22_WitnessRaised ==
    /\ state = GAME_STATE.WIN
    /\ highScore = score /\ storedHighScore = score
    /\ score > 15000

\* C23: every pass of gameLoop is the only one under way and is followed by
\* exactly one scheduled callback; in a gameplay pass the player is updated
\* first, then every light once, all of it before the first
\* checkPlayerInLight; every light is queried once and the exposure and state
\* are updated before the render; each pass renders once.
C23_FrameOrdering ==
    /\ [](query.scheduled + (IF query.phase = "idle" THEN 0 ELSE 1) = 1)
    /\ [](query.lightsUpdated > 0 => query.playerUpdated)
    /\ []((query.queried > 0 \/ query.phase = "query") =>
              (query.playerUpdated /\ query.lightsUpdated = Len(lightSources)))
    /\ [](query.exposureUpdated => query.queried = Len(lightSources))
    /\ []((query.rendered \/ query.phase = "render") =>
              (query.gameplay =>
                  /\ query.playerUpdated
                  /\ query.lightsUpdated = Len(lightSources)
                  /\ query.queried = Len(lightSources)
                  /\ query.exposureUpdated))
    /\ [](query.phase = "schedule" => query.rendered)
    /\ [][query'.lightsUpdated <= query.lightsUpdated + 1
            /\ query'.queried <= query.queried + 1
            /\ query'.lightsUpdated <= Len(lightSources)
            /\ query'.queried <= Len(lightSources)]_vars

\* C23 witness: a gameplay pass over three lights has rendered and is about
\* to schedule the next one; the player was lit, found by a query on the
\* moved lights
C23_Witness ==
    /\ query.phase = "schedule"
    /\ query.gameplay /\ query.rendered
    /\ Len(lightSources) >= 3
    /\ query.lightsUpdated = Len(lightSources)
    /\ query.queried = Len(lightSources)
    /\ query.scheduled = 0
    /\ query.lit
    /\ elapsedTime > ShortStep

\* C24 as stated: the lights, the obstacles and the player change only in
\* the update of a gameplay frame; no other handler (mouse move, key press,
\* start button, level-transition timer) changes them.
C24_SingleWriter ==
    [][(lightSources' # lightSources \/ obstacles' # obstacles \/ player' # player)
          => GameplayFrameStep]_vars

\* a level is loaded in this step: by startGame or by the transition timer
LevelLoaded == games' # games \/ LevelStartedByTimer

\* C25: a step that does not load a level keeps the number of lights and the
\* movementPattern of each of them; a level load gives each new light the
\* pattern of the level data.
C25_PatternFixed ==
    /\ [][~LevelLoaded =>
            /\ Len(lightSources') = Len(lightSources)
            /\ \A i \in 1..Len(lightSources) :
                  lightSources'[i].movementPattern = lightSources[i].movementPattern]_vars
    /\ [][LevelLoaded =>
            /\ Len(lightSources') = Len(LevelData(level').lightSources)
            /\ \A i \in 1..Len(lightSources') :
                  lightSources'[i].movementPattern
                      = LevelData(level').lightSources[i].movementPattern]_vars

\* C25 witness: a frame has updated lights of all three patterns after the
\* S key was pressed, and the 'random' one has drawn a direction
C25_Witness ==
    /\ frame.gameplay
    /\ {lightSources[i].movementPattern : i \in 1..Len(lightSources)}
          = {"circle", "linear", "random"}
    /\ \E i \in 1..Len(lightSources) :
          /\ lightSources[i].movementPattern = "random"
          /\ lightSources[i].nextDirectionChange > 0
          /\ ~lightSources[i].useOptimizedShadows

\* C26 as stated: for every light and every circle obstacle, castRays works
\* on 12 boundary points when useOptimizedShadows is false and on fewer when
\* it is true, and so draws fewer shadow primitives for the circle when the
\* flag is true.
C26_ResolutionKnob ==
    \A i \in 1..Len(lightSources) : \A j \in 1..Len(obstacles) :
        obstacles[j].type = "circle" =>
            LET full == [lightSources[i] EXCEPT !.useOptimizedShadows = FALSE]
                reduced == [lightSources[i] EXCEPT !.useOptimizedShadows = TRUE]
            IN  /\ Len(CastRaysCorners(full, obstacles[j])) = 12
                /\ Len(CastRaysCorners(reduced, obstacles[j])) < 12
                /\ Len(ShadowPrimitives(reduced, obstacles[j]))
                      < Len(ShadowPrimitives(full, obstacles[j]))

\* the lights ls, each with the opposite useOptimizedShadows
FlagsFlipped(ls) ==
    [i \in 1..Len(ls) |->
        [ls[i] EXCEPT !.useOptimizedShadows = (ls[i].useOptimizedShadows = FALSE)]]

\* a step of a handler other than startGame, the transition timer, the
\* animation frame and a mouse move that changes the player: a key press
KeyPressed ==
    /\ games' = games
    /\ Len(timers') = Len(timers)
    /\ elapsedTime' = elapsedTime
    /\ player' = player

\* C27: a press of S gives every light of the level the opposite
\* useOptimizedShadows and changes nothing else, neither in the lights nor in
\* the game; a second press gives back the lights as they were.
C27_ToggleOnlyFlags ==
    /\ [][KeyPressed =>
            /\ lightSources' = FlagsFlipped(lightSources)
            /\ UNCHANGED <<state, level, score, highScore, storedHighScore,
                           difficulty, levelDuration, elapsedTime, timers, player,
                           obstacles, playerInLight, frame, games>>]_vars
    /\ [](ToggleShadowQuality(lightSources) = FlagsFlipped(lightSources))
    /\ [](ToggleShadowQuality(ToggleShadowQuality(lightSources)) = lightSources)

\* C27 witness: S was pressed once on a level with several lights, which have
\* moved since the level was loaded: every flag is off
C27_Witness ==
    /\ Len(lightSources) >= 2
    /\ \A i \in 1..Len(lightSources) : ~lightSources[i].useOptimizedShadows
    /\ \E i \in 1..Len(lightSources) :
          lightSources[i].x # lightSources[i].centerX
    /\ frame.gameplay

\* the orders in which n obstacles can be listed
ListOrders(n) ==
    {f \in [1..n -> 1..n] : \A a, b \in 1..n : f[a] = f[b] => a = b}

\* the ring c started r corners later, and the ring c walked backwards
Rotated(c, r) == [i \in 1..Len(c) |-> c[((i - 1 + r) % Len(c)) + 1]]

Reversed(c) == [i \in 1..Len(c) |-> c[Len(c) + 1 - i]]

\* the obstacle list obs with the ring of its j-th obstacle replaced by ring
WithRing(obs, j, ring) == [obs EXCEPT ![j] = Poly(ring)]

\* C28: the result of checkPlayerInLight is the same for every order of the
\* obstacle list, and for every rotation of an obstacle's corner ring and the
\* reversal of each rotation.
C28_OrderIndependence ==
    query.kind = "checkPlayerInLight" =>
        /\ \A f \in ListOrders(Len(query.obstacles)) :
              checkPlayerInLight(query.light, query.player,
                                 [k \in 1..Len(query.obstacles) |-> query.obstacles[f[k]]])
                  = query.result
        /\ \A j \in 1..Len(query.obstacles) :
              LET ring == getCorners(query.obstacles[j])
              IN  \A r \in 0..Len(ring) :
                    /\ checkPlayerInLight(query.light, query.player,
                            WithRing(query.obstacles, j, Rotated(ring, r)))
                          = query.result
                    /\ checkPlayerInLight(query.light, query.player,
                            WithRing(query.obstacles, j, Reversed(Rotated(ring, r))))
                          = query.result

\* C28 witness: a query within the light's radius over two obstacles of which
\* only the second blocks the light: the result is false
C28_Witness ==
    /\ query.kind = "checkPlayerInLight"
    /\ Len(query.obstacles) = 2
    /\ WithinLightRadius(query.light, query.player)
    /\ ~isPointInShadow(query.light, query.player, query.obstacles[1])
    /\ isPointInShadow(query.light, query.player, query.obstacles[2])
    /\ ~query.result

\* C29: lineIntersection returns the same boolean when the end points of the
\* first segment are swapped, when those of the second are swapped, when both
\* are, and when the two segments are exchanged, for all coordinates of the
\* grid.
C29_Directionless ==
    query.kind = "lineIntersection" =>
        /\ lineIntersection(query.x2, query.y2, query.x1, query.y1,
                            query.x3, query.y3, query.x4, query.y4) = query.result
        /\ lineIntersection(query.x1, query.y1, query.x2, query.y2,
                            query.x4, query.y4, query.x3, query.y3) = query.result
        /\ lineIntersection(query.x2, query.y2, query.x1, query.y1,
                            query.x4, query.y4, query.x3, query.y3) = query.result
        /\ lineIntersection(query.x3, query.y3, query.x4, query.y4,
                            query.x1, query.y1, query.x2, query.y2) = query.result

\* C29 witness: two segments that meet only in the far end point of the
\* first one (ua = 1), which lies inside the second (0 < ub < 1)
C29_Witness ==
    /\ query.kind = "lineIntersection"
    /\ query.result
    /\ QueryDenominator # 0
    /\ QueryNumA = QueryDenominator
    /\ QueryNumB # 0 /\ QueryNumB # QueryDenominator

\* the square of the distance from the position of p to the target of q
TargetDistanceSquared(p, q) ==
    (q.targetX - p.x) * (q.targetX - p.x) + (q.targetY - p.y) * (q.targetY - p.y)

\* C30 as stated: the player's position changes only in player.update (a
\* gameplay frame) or player.reset (a level load); an update moves the player
\* toward the target and never past it, so that the distance to the target
\* after the update is not greater than before.
C30_AgentMotion ==
    /\ [][(player'.x # player.x \/ player'.y # player.y) =>
            (GameplayFrameStep \/ LevelLoaded)]_vars
    /\ [][GameplayFrameStep =>
            /\ (player.targetX - player'.x) * (player.targetX - player.x)
                  + (player.targetY - player'.y) * (player.targetY - player.y) >= 0
            /\ TargetDistanceSquared(player', player)
                  <= TargetDistanceSquared(player, player)]_vars

\* the numbers of obstacles and of lights of the levels 1..5
ObstacleCounts == <<3, 4, 5, 6, 7>>

LightCounts == <<1, 1, 2, 2, 3>>

\* C31: after a level load the obstacles are exactly those of the predefined
\* level and the lights are exactly its lights, as many as the level has
\* (3, 4, 5, 6, 7 obstacles and 1, 1, 2, 2, 3 lights), each at the position and
\* with the intensity, speed and pattern of the level data; levelDuration is
\* the level's timeToSurvive; a level number without a layout gets level 1's.
C31_LevelLoading ==
    /\ [][LevelLoaded =>
            /\ level' \in 1..5
            /\ obstacles' = predefinedLevels[level'].obstacles
            /\ Len(obstacles') = ObstacleCounts[level']
            /\ Len(lightSources') = LightCounts[level']
            /\ Len(lightSources') = Len(predefinedLevels[level'].lightSources)
            /\ \A i \in 1..Len(lightSources') :
                  LET data == predefinedLevels[level'].lightSources[i]
                  IN  /\ lightSources'[i].x = data.x
                      /\ lightSources'[i].y = data.y
                      /\ lightSources'[i].intensity = data.intensity
                      /\ lightSources'[i].rotationSpeed = data.speed
                      /\ lightSources'[i].movementPattern = data.movementPattern
            /\ levelDuration' = predefinedLevels[level'].timeToSurvive]_vars
    /\ [](/\ LevelData(0) = predefinedLevels[1]
          /\ LevelData(5 + 1) = predefinedLevels[1]
          /\ LoadObstacles(5 + 1) = predefinedLevels[1].obstacles)

\* C31 witness: level 3 has just been loaded by the transition timer over
\* the objects of level 2
C31_Witness ==
    /\ state = GAME_STATE.GAMEPLAY
    /\ level = 3
    /\ elapsedTime = 0
    /\ frame = NoFrame
    /\ Len(obstacles) = 5 /\ Len(lightSources) = 2
    /\ levelDuration = 30000
    /\ score > 0

\* C32: toggleMute gives isMuted the opposite value and returns the new
\* value; the second of two consecutive toggles gives back the value before
\* the first; a playSound call made while isMuted is true starts no sound.
C32_MuteToggle ==
    /\ [][query'.lastCall = "toggleMute" =>
            /\ query'.isMuted = (query.isMuted = FALSE)
            /\ query'.returned = query'.isMuted
            /\ query'.started = query.started
            /\ query.lastCall = "toggleMute" => query'.isMuted = query.mutedBefore]_vars
    /\ [][query'.lastCall = "playSound" =>
            /\ query'.isMuted = query.isMuted
            /\ query.isMuted => query'.started = query.started]_vars

\* C32 witness: the sound was muted and a loaded sound was asked for without
\* being started, after one had been started before the toggle
C32_Witness ==
    /\ query.kind = "audio"
    /\ query.isMuted /\ query.returned
    /\ query.lastCall = "playSound"
    /\ query.calls = 3
    /\ Len(query.started) = 1
    /\ query.buttonText = "Sound: OFF"

\* a call of checkPlayerInLight, isPointInShadow (both with the
\* lineIntersection calls they make) or castRays has returned in this step
QueryReturned ==
    /\ query' # query
    /\ query'.kind \in {"checkPlayerInLight", "isPointInShadow", "castRays"}

\* C33: a call of checkPlayerInLight, isPointInShadow or castRays leaves the
\* lights, the obstacles, the player and the game state as they were; its
\* result is computed from the light, the point and the obstacles it is
\* called with, whatever was asked before: nothing is kept from an earlier
\* call.
C33_QueriesArePure ==
    [][QueryReturned =>
        /\ UNCHANGED <<state, level, score, highScore, storedHighScore,
                       difficulty, levelDuration, elapsedTime, timers, player,
                       obstacles, lightSources, playerInLight, frame, games>>
        /\ query'.kind = "checkPlayerInLight" =>
              \E i \in 1..Len(lightSources) :
                /\ query'.light = lightSources[i]
                /\ query'.player = player
                /\ query'.result
                      = (/\ WithinLightRadius(lightSources[i], player)
                         /\ \A j \in 1..Len(query'.obstacles) :
                              ~isPointInShadow(lightSources[i], player,
                                               query'.obstacles[j]))
        /\ query'.kind = "isPointInShadow" =>
              \E i \in 1..Len(lightSources) : \E j \in 1..Len(obstacles) :
                /\ query'.light = lightSources[i]
                /\ query'.obstacle = obstacles[j]
                /\ query'.result
                      = (\E k \in 1..Len(getCorners(obstacles[j])) :
                            LET c == getCorners(obstacles[j])
                                d == c[(k % Len(c)) + 1]
                            IN  lineIntersection(lightSources[i].x, lightSources[i].y,
                                                 player.x, player.y,
                                                 c[k].x, c[k].y, d.x, d.y))
        /\ query'.kind = "castRays" =>
              /\ query'.obstacles = obstacles
              /\ \A j \in 1..Len(obstacles) :
                    Len(query'.primitives[j]) = 3 * Len(getCorners(obstacles[j]))
      ]_vars

\* C33 witness: isPointInShadow has found the player in the shadow of a
\* circle after the S key was pressed; the circle holds no corner list
C33_Witness ==
    /\ query.kind = "isPointInShadow"
    /\ query.result
    /\ query.obstacle.type = "circle"
    /\ query.obstacle.points = << >>
    /\ \A j \in 1..Len(obstacles) : obstacles[j].type # "polygon" => obstacles[j].points = << >>
    /\ ~query.light.useOptimizedShadows

\* the component v of a velocity points from the coordinate c back into
\* [radius, size - radius]
PointsInward(c, v, radius, size) ==
    /\ c < radius => v > 0
    /\ c > size - radius => v < 0

\* C34 as stated: after every update that leaves a 'linear' light beyond a
\* margin on an axis, the velocity component of that axis points back to the
\* interior, on both axes independently, and its magnitude is the one before
\* the update.
C34_LinearReflection ==
    \A i \in UpdatedLights("linear") :
        LET l == lightSources[i]
            b == query.before[i]
        IN  /\ PointsInward(l.x, l.linearDirection.x, l.radius, GameWidth)
            /\ PointsInward(l.y, l.linearDirection.y, l.radius, GameHeight)
            /\ l.linearDirection.x \in {b.linearDirection.x, -b.linearDirection.x}
            /\ l.linearDirection.y \in {b.linearDirection.y, -b.linearDirection.y}

\* v or its reflection
UpToSign(v) == {v, -v}

\* C35: an update of a 'random' light takes deltaTime off nextDirectionChange;
\* exactly when the result is <= 0 a direction with both components in
\* [-1, 1) is drawn and the countdown is set to a value in [1000, 4000),
\* otherwise the direction is the old one (up to a reflection at a wall) and
\* the countdown is the result; so after every update
\* 0 < nextDirectionChange < 4000.
C35_RandomCountdown ==
    \A i \in UpdatedLights("random") :
        LET l == lightSources[i]
            b == query.before[i]
            draw == query.draws[i]
            left == b.nextDirectionChange - query.deltaTime
        IN  /\ left <= 0 =>
                  /\ draw.dir.x \in -1000..999 /\ draw.dir.y \in -1000..999
                  /\ draw.countdown \in 1000..3999
                  /\ l.nextDirectionChange = draw.countdown
                  /\ l.linearDirection.x \in UpToSign(draw.dir.x)
                  /\ l.linearDirection.y \in UpToSign(draw.dir.y)
            /\ left > 0 =>
                  /\ draw = NoDraw
                  /\ l.nextDirectionChange = left
                  /\ l.linearDirection.x \in UpToSign(b.linearDirection.x)
                  /\ l.linearDirection.y \in UpToSign(b.linearDirection.y)
            /\ 0 < l.nextDirectionChange /\ l.nextDirectionChange < 4000

\* C35 witness: a 'random' light whose countdown, drawn in an earlier update,
\* has been running for a short frame and has not run out
C35_Witness ==
    \E i \in UpdatedLights("random") :
        /\ query.deltaTime = ShortStep
        /\ query.before[i].nextDirectionChange >= 1000
        /\ lightSources[i].nextDirectionChange
              = query.before[i].nextDirectionChange - ShortStep
        /\ lightSources[i].linearDirection \in {d.dir : d \in Draws}

\* C35 witness: the countdown of a 'random' light has run out in this update
\* and a direction and a countdown were drawn
C35_WitnessDrawn ==
    \E i \in UpdatedLights("random") :
        /\ query.before[i].nextDirectionChange > 0
        /\ query.before[i].nextDirectionChange - query.deltaTime <= 0
        /\ query.draws[i] \in Draws
        /\ lightSources[i].nextDirectionChange = query.draws[i].countdown

\* C36 as stated: whenever the timer set by completeLevel fires and calls
\* startLevel, the state is LEVEL_TRANSITION; the timer never restarts a level
\* that is being played and never moves the game out of GAME_OVER or WIN.
C36_TransitionTimer ==
    [][LevelStartedByTimer =>
        /\ state = GAME_STATE.LEVEL_TRANSITION
        /\ state # GAME_STATE.GAMEPLAY
        /\ state \notin {GAME_STATE.GAME_OVER, GAME_STATE.WIN}]_vars

\* C37: gameOver is called only in a gameplay frame in which some light's
\* checkPlayerInLight(player) is true, and the state becomes GAME_OVER only in
\* such a frame; a frame in which the player is in shadow from every light
\* does not end the game.
C37_LoseOnlyWhileLit ==
    /\ [][(GameplayFrameStep /\ frame'.calledGameOver) =>
            PlayerInLight(lightSources', player', obstacles')]_vars
    /\ [][(state' = GAME_STATE.GAME_OVER /\ state # GAME_STATE.GAME_OVER) =>
            /\ GameplayFrameStep
            /\ frame'.calledGameOver
            /\ PlayerInLight(lightSources', player', obstacles')]_vars

\* C37 witness: the first game was lost in a frame in which a light reached
\* the player
C37_Witness ==
    /\ state = GAME_STATE.GAME_OVER
    /\ games = 1
    /\ frame.gameplay /\ frame.calledGameOver
    /\ \E i \in 1..Len(lightSources) :
          checkPlayerInLight(lightSources[i], player, obstacles)

\* C37 witness: a gameplay frame with the player in shadow from every light,
\* the game going on
C37_WitnessShadow ==
    /\ state = GAME_STATE.GAMEPLAY
    /\ frame.gameplay /\ ~frame.calledGameOver
    /\ player.exposureTime > 0
    /\ \A i \in 1..Len(lightSources) :
          ~checkPlayerInLight(lightSources[i], player, obstacles)

\* a tick processed while no level is being played
IdleFrameStep ==
    state # GAME_STATE.GAMEPLAY /\ elapsedTime' > elapsedTime

\* C38: a tick processed in MENU, LEVEL_TRANSITION, GAME_OVER or WIN leaves
\* the player, every light, the obstacles, the score, the high score, the
\* level, the difficulty and the state as they were.
C38_IdleFramesInert ==
    [][IdleFrameStep =>
        /\ ~frame'.gameplay
        /\ UNCHANGED <<state, level, score, highScore, storedHighScore,
                       difficulty, levelDuration, player, obstacles,
                       lightSources>>]_vars

\* C38 witness: a tick has passed during the transition to the next level,
\* with the finished level's lights and the player's exposure still in place
C38_Witness ==
    /\ state = GAME_STATE.LEVEL_TRANSITION
    /\ ~frame.gameplay /\ frame.deltaTime > 0
    /\ Len(lightSources) > 0
    /\ player.exposureTime > 0
    /\ timers # << >>

\* C38 witness: a tick has passed after the game was lost
C38_WitnessOver ==
    /\ state = GAME_STATE.GAME_OVER
    /\ ~frame.gameplay /\ frame.deltaTime > 0
    /\ player.exposureTime >= maxExposureTime

\* C39: after startGame, from whatever state it is called in, the state is
\* GAMEPLAY, level = 1, score = 0, difficulty = 1.0, the player's exposure is
\* 0, its position and target are (50, height - 50), and the obstacles and
\* lights are those of level 1.
C39_StartGameReset ==
    [][games' # games =>
        /\ state' = GAME_STATE.GAMEPLAY
        /\ level' = 1
        /\ score' = 0
        /\ difficulty' = 10
        /\ player'.exposureTime = 0
        /\ player'.x = 50 /\ player'.y = GameHeight - 50
        /\ player'.targetX = 50 /\ player'.targetY = GameHeight - 50
        /\ obstacles' = PredefinedLevel1.obstacles
        /\ Len(lightSources') = Len(PredefinedLevel1.lightSources)
        /\ \A i \in 1..Len(lightSources') :
              LET data == PredefinedLevel1.lightSources[i]
              IN  /\ lightSources'[i].x = data.x
                  /\ lightSources'[i].y = data.y
                  /\ lightSources'[i].intensity = data.intensity
                  /\ lightSources'[i].rotationSpeed = data.speed
                  /\ lightSources'[i].movementPattern = data.movementPattern
        /\ levelDuration' = PredefinedLevel1.timeToSurvive]_vars

\* C39 witness: a second game has just been started while the first one was
\* waiting for its second level (the timer of the transition is pending,
\* the bonus of level 1 raised no high score yet)
C39_Witness ==
    /\ games = 2
    /\ timers # << >>
    /\ state = GAME_STATE.GAMEPLAY
    /\ level = 1 /\ score = 0 /\ elapsedTime = 0
    /\ player = PlayerReset(player)
    /\ frame = NoFrame

\* the states in which a level ends
LevelEnded ==
    state \in {GAME_STATE.LEVEL_TRANSITION, GAME_STATE.WIN, GAME_STATE.GAME_OVER}

\* C40 as stated: with frames delivered and due timers fired, the game does
\* not stay in LEVEL_TRANSITION, and what follows a LEVEL_TRANSITION is
\* GAMEPLAY of the level it leads to; it does not stay in GAMEPLAY of one
\* level, and what follows the GAMEPLAY of a level is LEVEL_TRANSITION, WIN
\* or GAME_OVER.
C40_ProgressAsStated ==
    /\ []<>(state # GAME_STATE.LEVEL_TRANSITION)
    /\ [][(state = GAME_STATE.LEVEL_TRANSITION /\ state' # state) =>
            (state' = GAME_STATE.GAMEPLAY /\ level' = level)]_vars
    /\ \A n \in 1..maxLevel :
          []<>~(state = GAME_STATE.GAMEPLAY /\ level = n)
    /\ [][(state = GAME_STATE.GAMEPLAY /\ (state' # state \/ level' # level)) =>
            LevelEnded']_vars

\* C40, amended: with frames delivered and due timers fired, no game stays in
\* LEVEL_TRANSITION or in GAMEPLAY forever; what follows a LEVEL_TRANSITION
\* is GAMEPLAY of the level it leads to, and what follows the GAMEPLAY of a
\* level is LEVEL_TRANSITION, WIN or GAME_OVER, unless startGame begins a new
\* game, which puts GAMEPLAY of level 1 in their place.
C40_Progress ==
    /\ []<>(state # GAME_STATE.LEVEL_TRANSITION)
    /\ [][(state = GAME_STATE.LEVEL_TRANSITION /\ state' # state) =>
            \/ state' = GAME_STATE.GAMEPLAY /\ level' = level /\ games' = games
            \/ state' = GAME_STATE.GAMEPLAY /\ level' = 1 /\ games' # games]_vars
    /\ \A g \in 1..MaxGames : \A n \in 1..maxLevel :
          []<>~(state = GAME_STATE.GAMEPLAY /\ level = n /\ games = g)
    /\ [][(state = GAME_STATE.GAMEPLAY /\ (state' # state \/ level' # level)) =>
            \/ LevelEnded' /\ games' = games
            \/ state' = GAME_STATE.GAMEPLAY /\ level' = 1 /\ games' # games]_vars

\* C40 witness: the transition after level 1 has been followed by GAMEPLAY
\* of level 2, started by the timer
C40_Witness ==
    /\ state = GAME_STATE.GAMEPLAY
    /\ level = 2 /\ games = 1
    /\ elapsedTime = 0 /\ timers = << >>
    /\ score >= BonusPoints(1)
    /\ levelDuration = PredefinedLevel2.timeToSurvive

====
